---- MODULE Spec2Model ----
(***************************************************************************)
(* Model of the conversation engine of app/agent_framework_manager.py:     *)
(* AgentFrameworkManager.chat, the tool-call loop _chat_with_tools, the    *)
(* orchestrator and specialist tool executors, and the session store with  *)
(* its single asyncio lock.  One turn is one chat() call; its steps are    *)
(* the stretches of code between two awaits (lock acquisition, a           *)
(* Completion Client call, a tool execution in a worker thread).           *)
(***************************************************************************)
EXTENDS Integers, Sequences, FiniteSets, Bags, TLC

VARIABLES
    sessions,               \* self.sessions: thread id -> list of messages
    lock,                   \* self._lock: the set of turns inside it
    current_user_context,   \* self.current_user_context
    uuids,                  \* number of uuid4() thread ids handed out
    pc,                     \* per turn: where the chat() coroutine stands
    req,                    \* per turn: the arguments of the chat() call
    thread_id,              \* per turn: chat()'s local thread_id
    session_history,        \* per turn: chat()'s local session_history
    stack,                  \* per turn: the _chat_with_tools activations
    updated_history,        \* per turn: chat()'s local updated_history
    result,                 \* per turn: ChatResult, or the exception raised
    client_called,          \* the turns that have called the Completion Client
    tool_log,               \* tool executions: <<turn, context, name>>
    store_before,           \* per turn: self.sessions when chat() was called
    base,                   \* per turn: the history its snapshot read
    script,                 \* the scripted Completion Client stub, if any
    overlapped,             \* turns that shared their thread with another
    requests,               \* rate_limiter.requests: ip -> (timestamp, endpoint)s
    last_cleanup,           \* rate_limiter.last_cleanup
    clock,                  \* time.time(), in seconds
    verdict,                \* how the latest rate-limit check ended
    accepted,               \* every request a check let through: <<ip, path, time>>
    checks,                 \* number of rate-limit checks made
    limit,                  \* max_requests and window_seconds of the checks
    http,                   \* the request the /api/chat handler serves
    handler                 \* where chat_with_agent stands, and its locals

\* the variables of the web layer: rate limiter and /api/chat handler
web_vars == <<requests, last_cleanup, clock, verdict, accepted, checks, limit,
              http, handler>>

\* the variables of the conversation engine
manager_vars == <<sessions, lock, current_user_context, uuids, pc, req,
                  thread_id, session_history, stack, updated_history, result,
                  client_called, tool_log, store_before, base, script,
                  overlapped>>

vars == <<sessions, lock, current_user_context, uuids, pc, req, thread_id,
          session_history, stack, updated_history, result, client_called,
          tool_log, store_before, base, script, overlapped,
          requests, last_cleanup, clock, verdict, accepted, checks, limit,
          http, handler>>

----------------------------------------------------------------------------
(* Bounds of the model *)

\* chat() calls in the model
NumTurns == 2
\* concurrent turns: the client asks for tools only in its first
\* MaxToolRounds answers to an engine run
MaxToolRounds == 1
\* scripted client: it asks for tools in at most its first MaxScriptRounds
\* answers to a turn
MaxScriptRounds == 6
\* distinct tool-call lists the client asks for within one engine run
MaxListsPerRun == 1

Turns == 1..NumTurns

(* Program constants *)

max_iterations == 5

None == "None"

----------------------------------------------------------------------------
(* Messages *)

Message(role, content, tool_calls, tool_call_id) ==
    [role |-> role, content |-> content,
     tool_calls |-> tool_calls, tool_call_id |-> tool_call_id]

SystemMessage(content) == Message("system", content, <<>>, None)
UserMessage(content) == Message("user", content, <<>>, None)

\* lines 510-517: tool_calls is set on the message only when non-empty
AssistantMessage(content, tool_calls) ==
    Message("assistant", content, tool_calls, None)

\* a tool message that does not say which call it answers
ToolMessageUnpaired(call, tool_output) ==
    [role |-> "tool",
     content |-> IF tool_output # "" THEN tool_output
                                     ELSE "Tool execution completed",
     tool_calls |-> <<>>, tool_call_id |-> None]

\* lines 528-536: str(tool_output) if tool_output else the fixed text
ToolMessage(call, tool_output) ==
    Message("tool",
            IF tool_output # "" THEN tool_output
                                ELSE "Tool execution completed",
            <<>>, call.id)

ToolCall(id, name, arguments) ==
    [id |-> id, type |-> "function",
     function |-> [name |-> name, arguments |-> arguments]]

\* _clone_message: every key copied, tool_calls through a JSON round trip
CloneMessage(m) ==
    Message(m.role, m.content,
            [i \in 1..Len(m.tool_calls) |->
                ToolCall(m.tool_calls[i].id, m.tool_calls[i].function.name,
                         m.tool_calls[i].function.arguments)],
            m.tool_call_id)

CloneHistory(messages) == [i \in 1..Len(messages) |-> CloneMessage(messages[i])]

\* a filter that lets the system message through
KeepSystem(history) == history

\* [msg for msg in history if msg.get("role") != "system"]
WithoutSystem(history) == SelectSeq(history, LAMBDA m : m.role # "system")

----------------------------------------------------------------------------
(* Specialist registry and orchestrator routing table *)

SpecialistKeys ==
    {"sales", "operations", "analytics", "financial", "support",
     "coordinator", "customer_success", "operations_excellence"}

SALES_TOOLS == {"get_sales_summary", "get_customer_demographics"}
FABRIC_TOOLS == {"get_sales_summary", "get_customer_demographics",
                 "get_inventory_status", "get_performance_metrics"}
CALCULATION_TOOLS == {"calculate_roi", "forecast_revenue"}
WEATHER_TOOLS == {"get_weather", "get_forecast"}

DisplayName(key) ==
    CASE key = "sales" -> "SalesAssistant"
      [] key = "operations" -> "OperationsAssistant"
      [] key = "analytics" -> "AnalyticsAssistant"
      [] key = "financial" -> "FinancialAdvisor"
      [] key = "support" -> "CustomerSupportAssistant"
      [] key = "coordinator" -> "OperationsCoordinator"
      [] key = "customer_success" -> "CustomerSuccessAgent"
      [] key = "operations_excellence" -> "OperationsExcellenceAgent"

ProfileTools(key) ==
    CASE key = "sales" -> SALES_TOOLS
      [] key = "financial" -> CALCULATION_TOOLS
      [] key = "support" -> {}
      [] key = "coordinator" -> FABRIC_TOOLS \cup WEATHER_TOOLS
      [] OTHER -> FABRIC_TOOLS

specialist_profiles ==
    [key \in SpecialistKeys |->
        [display_name |-> DisplayName(key),
         id |-> "id:" \o key,
         prompt |-> "prompt:" \o key,
         tools |-> ProfileTools(key)]]

orchestrator_prompt == "prompt:orchestrator"
orchestrator_agent_id == "id:orchestrator"

OrchestratorToolNames ==
    {"call_sales_specialist", "call_operations_specialist",
     "call_analytics_specialist", "call_financial_specialist",
     "call_support_specialist", "call_operations_coordinator",
     "call_customer_success_specialist",
     "call_operations_excellence_specialist"}

\* a routing table that sends every routing tool to the sales specialist
ToolToAgentSales(name) ==
    IF name \in OrchestratorToolNames THEN "sales" ELSE None

\* self._tool_to_agent.get(name): None for a name that is no key
tool_to_agent(name) ==
    CASE name = "call_sales_specialist" -> "sales"
      [] name = "call_operations_specialist" -> "operations"
      [] name = "call_analytics_specialist" -> "analytics"
      [] name = "call_financial_specialist" -> "financial"
      [] name = "call_support_specialist" -> "support"
      [] name = "call_operations_coordinator" -> "coordinator"
      [] name = "call_customer_success_specialist" -> "customer_success"
      [] name = "call_operations_excellence_specialist" ->
            "operations_excellence"
      [] OTHER -> None

----------------------------------------------------------------------------
(* The tool registry of agent_tools.execute_tool_call *)

tool_map ==
    {"get_sales_summary", "get_customer_demographics", "get_inventory_status",
     "get_performance_metrics", "calculate_roi", "forecast_revenue",
     "get_weather", "get_forecast", "query_powerbi_data",
     "get_report_summary"}

\* the tools whose signature has a user_context parameter
AcceptsUserContext ==
    {"get_sales_summary", "get_customer_demographics", "get_inventory_status",
     "get_performance_metrics"}

----------------------------------------------------------------------------
(* Tool-call arguments: raw JSON text and what json.loads makes of it *)

ArgsQuestion == "{\"question\": \" q1 \"}"
ArgsNoQuestion == "{}"
ArgsMalformed == "not json"
ArgsList == "[1]"
ArgsEmpty == ""

Dict(value) == [kind |-> "dict", value |-> value]
EmptyDict == Dict(<<>>)

\* json.loads(args_raw): a dict, a list, or JSONDecodeError
JsonLoads(args_raw) ==
    CASE args_raw = ArgsQuestion -> Dict([question |-> " q1 "])
      [] args_raw = ArgsNoQuestion -> EmptyDict
      [] args_raw = ArgsList -> [kind |-> "list", value |-> <<1>>]
      [] OTHER -> [kind |-> "JSONDecodeError", value |-> <<>>]

\* _execute_orchestrator_tool, lines 548-551
OrchestratorArguments(args_raw) ==
    IF args_raw = "" THEN EmptyDict
    ELSE IF JsonLoads(args_raw).kind = "JSONDecodeError"
         THEN Dict([question |-> args_raw])
         ELSE JsonLoads(args_raw)

\* _execute_tool_call, lines 574-577
ToolArguments(args_raw) ==
    IF args_raw = "" THEN EmptyDict
    ELSE IF JsonLoads(args_raw).kind = "JSONDecodeError"
         THEN EmptyDict
         ELSE JsonLoads(args_raw)

\* arguments.get("question", "")
GetQuestion(arguments) ==
    IF "question" \in DOMAIN arguments.value
    THEN arguments.value["question"] ELSE ""

\* json.dumps({"error": text})
JsonError(text) == "{\"error\": \"" \o text \o "\"}"

\* json.dumps({"agent": ..., "agent_id": ..., "answer": ...})
JsonPayload(agent, agent_id, answer) ==
    "{\"agent\": \"" \o agent \o "\", \"agent_id\": \"" \o agent_id
        \o "\", \"answer\": \"" \o answer \o "\"}"

----------------------------------------------------------------------------
(* agent_tools.execute_tool_call and AgentFrameworkManager._execute_tool_call *)

Returned(value) == [raised |-> FALSE, value |-> value]
Raised(text) == [raised |-> TRUE, value |-> text]

\* the keyword arguments handed to the tool: the parsed arguments with
\* user_context merged in when a context is supplied (lines 1010-1011)
MergedKeys(arguments, user_context) ==
    DOMAIN arguments.value
        \cup (IF user_context # None THEN {"user_context"} ELSE {})

\* what the tool itself may do once called: a result, or an exception of
\* its own (its database or service is down)
ToolBody(tool_name, user_context) ==
    { Returned("{\"" \o tool_name \o "\": \""
                  \o (IF tool_name \in AcceptsUserContext
                      THEN user_context ELSE None) \o "\"}"),
      Raised(tool_name \o " failed") }

\* execute_tool_call(tool_name, arguments, user_context): the set of its
\* outcomes
execute_tool_call(tool_name, arguments, user_context) ==
    IF arguments.kind # "dict"
    THEN { Raised("TypeError") }
    ELSE IF tool_name \notin tool_map
    THEN { Raised("Unknown tool: " \o tool_name) }
    ELSE IF "user_context" \in MergedKeys(arguments, user_context)
            /\ tool_name \notin AcceptsUserContext
    THEN { Raised("TypeError: unexpected keyword argument user_context") }
    ELSE ToolBody(tool_name, user_context)

\* _execute_tool_call, lines 579-593: the string handed back to the loop
ToolOutput(outcome) ==
    IF outcome.raised THEN JsonError(outcome.value) ELSE outcome.value

----------------------------------------------------------------------------
(* _chat_with_tools: one activation is a frame; a turn's stack holds the   *)
(* top-level activation and, while the orchestrator routes, the routed     *)
(* specialist's activation above it.  Each operator runs the code from one *)
(* await to the next and says how it ended: at an await, with a return to  *)
(* chat(), or with an exception that nothing catches.                      *)

Frame(agent, messages, tool_executor) ==
    [agent |-> agent,
     history |-> CloneHistory(messages),    \* line 418
     iterations |-> 0,                      \* line 419
     tool_calls |-> <<>>,
     idx |-> 0,
     tool_executor |-> tool_executor,
     awaiting |-> None,
     arguments |-> None,
     user_context |-> None]

Top(s) == s[Len(s)]
Pop(s) == SubSeq(s, 1, Len(s) - 1)
ReplaceTop(s, f) == [s EXCEPT ![Len(s)] = f]

AtAwait(s) == [status |-> "await", stack |-> s, text |-> None,
               history |-> <<>>, usage |-> None]
Raises(text) == [status |-> "raise", stack |-> <<>>, text |-> text,
                 history |-> <<>>, usage |-> None]
Returns(text, history, usage) ==
    [status |-> "return", stack |-> <<>>, text |-> text,
     history |-> history, usage |-> usage]

\* line 541
MaxIterationsError == "Agent interaction exceeded maximum iterations"

\* a loop without a budget
LoopHeadUnbounded(s) ==
    AtAwait(ReplaceTop(s, [Top(s) EXCEPT !.iterations = @ + 1,
                                          !.awaiting = "client"]))

\* a loop that gives up quietly: it returns what it has when the budget is
\* used up
LoopHeadTruncating(s) ==
    IF Top(s).iterations < max_iterations
    THEN AtAwait(ReplaceTop(s, [Top(s) EXCEPT !.iterations = @ + 1,
                                              !.awaiting = "client"]))
    ELSE Returns("", Top(s).history, None)

\* _format_messages_for_framework, lines 596-620: role and text of every
\* message, tool_calls of assistant messages, tool_call_id of tool messages
FormatMessages(messages) ==
    [i \in 1..Len(messages) |->
        [role |-> messages[i].role,
         content |-> messages[i].content,
         tool_calls |-> IF messages[i].role = "assistant"
                        THEN messages[i].tool_calls ELSE <<>>,
         tool_call_id |-> IF messages[i].role = "tool"
                          THEN messages[i].tool_call_id ELSE None]]

\* lines 421-436 and 541: the loop test, and the Completion Client call
LoopHead(s) ==
    IF Top(s).iterations < max_iterations
    THEN AtAwait(ReplaceTop(s, [Top(s) EXCEPT !.iterations = @ + 1,
                                              !.awaiting = "client"]))
    ELSE Raises(MaxIterationsError)

\* every specialist run is handed the tool executor
SpecialistExecutorAlways(agent_key) == "tools"

\* the executor _run_specialist picks, line 397
SpecialistExecutor(agent_key) ==
    IF specialist_profiles[agent_key].tools # {} THEN "tools" ELSE None

\* a routed specialist run that is handed the orchestrator's transcript
RunSpecialistForwarding(s, agent_key, question) ==
    LoopHead(Append(s,
        Frame(agent_key,
              << SystemMessage(specialist_profiles[agent_key].prompt) >>
                \o (IF s = <<>> THEN <<>> ELSE WithoutSystem(Top(s).history))
                \o << UserMessage(question) >>,
              SpecialistExecutor(agent_key))))

\* _run_specialist, lines 391-402, up to its Completion Client call
RunSpecialist(s, agent_key, question) ==
    LoopHead(Append(s,
        Frame(agent_key,
              << SystemMessage(specialist_profiles[agent_key].prompt),
                 UserMessage(question) >>,
              SpecialistExecutor(agent_key))))

\* an orchestrator run seeded with the new user message only
RunOrchestratorFresh(history) ==
    LoopHead(<< Frame("orchestrator",
                      << SystemMessage(orchestrator_prompt),
                         history[Len(history)] >>,
                      "orchestrator") >>)

\* _run_orchestrator, lines 371-380, up to its Completion Client call
RunOrchestrator(history) ==
    LoopHead(<< Frame("orchestrator",
                      <<SystemMessage(orchestrator_prompt)>> \o history,
                      "orchestrator") >>)

\* str.strip() on the question
Strip(text) == IF text = " q1 " THEN "q1" ELSE text

\* the context _execute_tool_call hands to execute_tool_call, line 585
ToolContext(shared_context, turn_context) == shared_context

\* an error payload that does not say which name was asked for
UnknownToolOutputBare(name) == JsonError("Unknown tool")

\* line 558: the tool output for a name that maps to no specialist
UnknownToolOutput(name) == JsonError("Unknown tool " \o name)

RECURSIVE ForCalls(_, _, _)

\* a loop that loses a call: after one tool message it moves two calls on
ToolOutputDoneSkipping(s, tool_output, shared, own) ==
    ForCalls(ReplaceTop(s,
                [Top(s) EXCEPT
                    !.history = Append(@, ToolMessage(Top(s).tool_calls[Top(s).idx],
                                                      tool_output)),
                    !.idx = @ + 2,
                    !.awaiting = None,
                    !.arguments = None,
                    !.user_context = None]),
             shared, own)

\* lines 528-536: the tool message of the call at idx, then the next call
ToolOutputDone(s, tool_output, shared, own) ==
    ForCalls(ReplaceTop(s,
                [Top(s) EXCEPT
                    !.history = Append(@, ToolMessage(Top(s).tool_calls[Top(s).idx],
                                                      tool_output)),
                    !.idx = @ + 1,
                    !.awaiting = None,
                    !.arguments = None,
                    !.user_context = None]),
             shared, own)

\* a loop that asks the client again as soon as the first call is answered
ForCallsFirstOnly(s, shared, own) ==
    LET f == Top(s) IN
    IF f.idx > 1
    THEN LoopHead(ReplaceTop(s, [f EXCEPT !.tool_calls = <<>>, !.idx = 0]))
    ELSE LET call == f.tool_calls[f.idx]
             name == call.function.name
             arguments == OrchestratorArguments(call.function.arguments)
         IN  IF f.tool_executor = "orchestrator"
             THEN IF tool_to_agent(name) = None
                  THEN ToolOutputDone(s, UnknownToolOutput(name), shared, own)
                  ELSE IF arguments.kind # "dict"
                  THEN Raises("AttributeError")
                  ELSE RunSpecialist(s, tool_to_agent(name),
                                     Strip(GetQuestion(arguments)))
             ELSE AtAwait(ReplaceTop(s,
                    [f EXCEPT !.awaiting = "tool",
                              !.arguments =
                                  ToolArguments(call.function.arguments),
                              !.user_context = ToolContext(shared, own)]))

\* lines 526-537 with both executors (lines 543-561 and 570-586): the calls
\* from idx on, until one of them awaits
ForCalls(s, shared, own) ==
    LET f == Top(s) IN
    IF f.idx > Len(f.tool_calls)
    THEN LoopHead(ReplaceTop(s, [f EXCEPT !.tool_calls = <<>>, !.idx = 0]))
    ELSE LET call == f.tool_calls[f.idx]
             name == call.function.name
             arguments == OrchestratorArguments(call.function.arguments)
         IN  IF f.tool_executor = "orchestrator"
             THEN IF tool_to_agent(name) = None
                  THEN ToolOutputDone(s, UnknownToolOutput(name), shared, own)
                  ELSE IF arguments.kind # "dict"
                  THEN Raises("AttributeError")
                  ELSE RunSpecialist(s, tool_to_agent(name),
                                     Strip(GetQuestion(arguments)))
             ELSE AtAwait(ReplaceTop(s,
                    [f EXCEPT !.awaiting = "tool",
                              !.arguments =
                                  ToolArguments(call.function.arguments),
                              !.user_context = ToolContext(shared, own)]))

\* an executor without the try/except: the tool's exception leaves the loop
ExecuteToolCallUncaught(s, outcome, shared, own) ==
    IF outcome.raised THEN Raises(outcome.value)
    ELSE ToolOutputDone(s, outcome.value, shared, own)

\* lines 579-593: execute_tool_call came back from its worker thread with a
\* result or an exception; either way the loop gets a string
ExecuteToolCallDone(s, outcome, shared, own) ==
    ToolOutputDone(s, ToolOutput(outcome), shared, own)

\* a return that hands back the history without the final assistant message
FrameReturnSeed(s, text, history, usage, shared, own) ==
    IF Len(s) = 1
    THEN Returns(text, SubSeq(history, 1, Len(history) - 1), usage)
    ELSE ToolOutputDone(Pop(s),
            JsonPayload(specialist_profiles[Top(s).agent].display_name,
                        specialist_profiles[Top(s).agent].id,
                        text),
            shared, own)

\* lines 539 and 561-568: a frame returns, to chat() or to the orchestrator's
\* executor, which wraps the answer as the routed call's tool output
FrameReturn(s, text, history, usage, shared, own) ==
    IF Len(s) = 1
    THEN Returns(text, history, usage)
    ELSE ToolOutputDone(Pop(s),
            JsonPayload(specialist_profiles[Top(s).agent].display_name,
                        specialist_profiles[Top(s).agent].id,
                        text),
            shared, own)

\* lines 523-525
NoExecutorError == "Tool calls encountered but no executor provided"

\* lines 438-539: the Completion Client answered
OnResponse(s, response, shared, own) ==
    LET f == [Top(s) EXCEPT
                !.history = Append(@, AssistantMessage(response.text,
                                                       response.tool_calls)),
                !.awaiting = None]
    IN  IF response.tool_calls # <<>>
        THEN IF f.tool_executor = None
             THEN Raises(NoExecutorError)
             ELSE ForCalls(ReplaceTop(s, [f EXCEPT
                                !.tool_calls = response.tool_calls,
                                !.idx = 1]),
                           shared, own)
        ELSE FrameReturn(s, response.text, f.history, response.usage,
                         shared, own)

----------------------------------------------------------------------------
(* What the caller and the collaborators may supply *)

Messages == {"m1", "m2"}
AgentTypes == {None, "sales", " Support ", "financial", "bogus"}
ThreadArgs == {None, "t1"}
Contexts == {None, "ctxA", "ctxB"}

Usage == "usage"

ClientToolCalls ==
    { << ToolCall("call_1", "call_support_specialist", ArgsQuestion) >>,
      << ToolCall("call_1", "call_sales_specialist", ArgsMalformed) >>,
      << ToolCall("call_1", "call_missing_specialist", ArgsQuestion) >>,
      << ToolCall("call_1", "get_sales_summary", ArgsNoQuestion) >>,
      << ToolCall("call_1", "no_such_tool", ArgsNoQuestion),
         ToolCall("call_2", "calculate_roi", ArgsNoQuestion) >> }

Response(text, tool_calls, usage) ==
    [text |-> text, tool_calls |-> tool_calls, usage |-> usage,
     failed |-> FALSE]

\* the Completion Client call raised, or came back without a message
NoResponse == [text |-> None, tool_calls |-> <<>>, usage |-> None,
               failed |-> TRUE]

FinalResponses == { Response("answer", <<>>, u) : u \in {None, Usage} }

\* the tool-call lists of the assistant messages this activation appended:
\* its last iterations - 1 assistant messages
ListsUsed(history, n) ==
    LET assistants == { i \in 1..Len(history) : history[i].role = "assistant" }
        last == { i \in assistants :
                    Cardinality({ j \in assistants : j >= i }) <= n }
    IN  { history[i].tool_calls : i \in last }

\* what the Completion Client may answer the activation f: a final text, or
\* tool calls, asking for at most MaxListsPerRun different lists in one run
ClientResponses(f) ==
    FinalResponses
    \cup { Response("", c, Usage) : c \in
            { c \in ClientToolCalls :
                \/ c \in ListsUsed(f.history, f.iterations - 1)
                \/ Cardinality(ListsUsed(f.history, f.iterations - 1))
                        < MaxListsPerRun } }

----------------------------------------------------------------------------
(* chat() *)

\* (agent_type or "").strip().lower()
StripLower(agent_type) ==
    CASE agent_type = None -> ""
      [] agent_type = " Support " -> "support"
      [] OTHER -> agent_type

\* lines 312-319
NormalizedType(agent_type) ==
    IF StripLower(agent_type) \in {"", "sales", "orchestrator", "auto", "default"}
    THEN "orchestrator"
    ELSE StripLower(agent_type)

\* an id source that hands out the same id every time
Uuid4Repeating(n) == "uuid-0"

\* str(uuid.uuid4()): the n-th identifier drawn
Uuid4(n) == "uuid-" \o ToString(n)

NoResult ==
    [status |-> None, response |-> None, thread_id |-> None,
     agent_id |-> None, run_id |-> None, usage |-> None, error |-> None]

\* a lock that lets every turn in
LockFreeAlways == TRUE

\* async with self._lock: entering waits until no turn is inside
LockFree == lock = {}
LockEnter(t) == lock \cup {t}
LockExit(t) == lock \ {t}

InFlight(t) == pc[t] \notin {"idle", "done", "raised"}

----------------------------------------------------------------------------
(* The rate limiter of rate_limiter.py.  self.requests maps an IP to a     *)
(* list of (timestamp, endpoint) pairs; the code only filters, counts and  *)
(* takes the minimum of these lists and appends to them, so a list is      *)
(* modelled by the bag of its entries.  Time is in whole seconds, and the  *)
(* two time.time() readings of one check are the same instant.             *)

\* bounds: checks in a run of the window model, windows the clock runs
\* through, and checks in a run of the admin model
MaxCalls == 4
MaxWindows == 2
MaxAdminCalls == 51

\* self.cleanup_interval, line 22, and the age in seconds past which
\* _cleanup_old_requests drops an entry, line 31
cleanup_interval == 300
cleanup_age == 3600

\* line 74: len(recent_requests) >= max_requests
OverLimit(n, max_requests) == n >= max_requests

\* the entries of a list that are newer than cutoff_time (lines 35-37)
NewerThan(entries, cutoff_time) ==
    [e \in {x \in DOMAIN entries : x[1] > cutoff_time} |-> entries[e]]

\* lines 25-42: _cleanup_old_requests, run at time current_time
cleanup_old_requests(reqs, last, current_time) ==
    IF current_time - last < cleanup_interval
    THEN [requests |-> reqs, last_cleanup |-> last]
    ELSE LET cutoff_time == current_time - cleanup_age
             kept == [ip \in DOMAIN reqs |-> NewerThan(reqs[ip], cutoff_time)]
         IN  [requests |-> [ip \in {i \in DOMAIN kept : kept[i] # EmptyBag}
                                |-> kept[ip]],
              last_cleanup |-> current_time]

\* lines 69-72: the entries of the window that are for this endpoint
RecentRequests(entries, endpoint, cutoff_time) ==
    [e \in {x \in DOMAIN entries : x[1] > cutoff_time /\ x[2] = endpoint}
        |-> entries[e]]

\* min(recent_requests), line 76
Oldest(recent_requests) ==
    CHOOSE ts \in {e[1] : e \in DOMAIN recent_requests} :
        \A e \in DOMAIN recent_requests : ts <= e[1]

\* lines 44-92: RateLimiter.check_rate_limit at time current_time; the
\* answer is True (status 200) or the HTTPException raised
RateLimiterCheck(reqs, last, current_time, ip_address, endpoint, max_requests, window_seconds) ==
    LET cleaned == cleanup_old_requests(reqs, last, current_time)
        \* self.requests is a defaultdict: reading an unknown IP adds it
        tracked == [ip \in DOMAIN cleaned.requests \cup {ip_address} |->
                        IF ip \in DOMAIN cleaned.requests
                        THEN cleaned.requests[ip] ELSE EmptyBag]
        cutoff_time == current_time - window_seconds
        recent_requests ==
            RecentRequests(tracked[ip_address], endpoint, cutoff_time)
    IN  IF OverLimit(BagCardinality(recent_requests), max_requests)
        THEN [requests |-> tracked,
              last_cleanup |-> cleaned.last_cleanup,
              status |-> 429,
              retry_after |->
                  (window_seconds - (current_time - Oldest(recent_requests)))
                  + 1]
        ELSE [requests |-> [tracked EXCEPT ![ip_address] =
                                @ (+) SetToBag({<<current_time, endpoint>>})],
              last_cleanup |-> cleaned.last_cleanup,
              status |-> 200,
              retry_after |-> None]

\* str.startswith
StartsWith(text, prefix) ==
    /\ Len(text) >= Len(prefix)
    /\ SubSeq(text, 1, Len(prefix)) = prefix

\* str.strip() of a text with blanks at its ends only
TrimBlanks(text) ==
    LET inside == { i \in 1..Len(text) : SubSeq(text, i, i) # " " }
    IN  IF inside = {} THEN ""
        ELSE SubSeq(text,
                    CHOOSE i \in inside : \A j \in inside : i <= j,
                    CHOOSE i \in inside : \A j \in inside : i >= j)

\* lines 94-115: get_client_ip; the first X-Forwarded-For entry, else the
\* peer address, else "unknown"
get_client_ip(request) ==
    IF request.forwarded # None /\ request.forwarded # ""
    THEN LET commas == { i \in 1..Len(request.forwarded) :
                            SubSeq(request.forwarded, i, i) = "," }
             stop == IF commas = {} THEN Len(request.forwarded) + 1
                     ELSE CHOOSE i \in commas : \A j \in commas : i <= j
         IN  TrimBlanks(SubSeq(request.forwarded, 1, stop - 1))
    ELSE IF request.client # None THEN request.client
    ELSE "unknown"

\* lines 123-128, in the order of the dict
RATE_LIMITS ==
    << [pattern |-> "/api/auth/login", max_requests |-> 5,
        window_seconds |-> 60],
       [pattern |-> "/api/auth/register", max_requests |-> 3,
        window_seconds |-> 3600],
       [pattern |-> "/api/chat", max_requests |-> 30, window_seconds |-> 60],
       [pattern |-> "/api/admin", max_requests |-> 50, window_seconds |-> 60] >>

\* lines 144-151: the first pattern the path starts with, or 0
MatchingLimit(endpoint_path) ==
    LET matching == { i \in 1..Len(RATE_LIMITS) :
                        StartsWith(endpoint_path, RATE_LIMITS[i].pattern) }
    IN  IF matching = {} THEN 0
        ELSE CHOOSE i \in matching : \A j \in matching : i <= j

\* lines 131-159: the dependency check_rate_limit(request)
check_rate_limit(reqs, last, current_time, request) ==
    LET client_ip == get_client_ip(request)
        endpoint_path == request.path
        i == MatchingLimit(endpoint_path)
    IN  IF i # 0
        THEN RateLimiterCheck(reqs, last, current_time, client_ip,
                              endpoint_path, RATE_LIMITS[i].max_requests,
                              RATE_LIMITS[i].window_seconds)
        ELSE RateLimiterCheck(reqs, last, current_time, client_ip,
                              endpoint_path, 100, 60)

\* the limiter after RateLimiter.__init__ at time 0, lines 18-23
InitLimiter ==
    /\ requests = <<>>
    /\ last_cleanup = 0
    /\ clock = 0
    /\ verdict = None
    /\ accepted = EmptyBag
    /\ checks = 0

----------------------------------------------------------------------------
(* The /api/chat handler chat_with_agent of app/routes_chat.py with        *)
(* AuthService.verify_request_auth.  A payload is named by the user        *)
(* context the engine is handed: the dict verify_jwt_token returns is the  *)
(* object that reaches AgentFrameworkManager.chat as user_context.         *)

\* the tokens that carry a valid signature, and the payload of each
SignedTokens == ("tokA" :> "ctxA") @@ ("tokB" :> "ctxB")

\* a token check that takes every token for the first user's
AcceptEveryToken(token) == "ctxA"

\* utils/auth.py, lines 106-125: the payload, or None for a token that
\* jwt.decode refuses
verify_jwt_token(token) ==
    IF token \in DOMAIN SignedTokens THEN SignedTokens[token] ELSE None

\* auth_header.split(" ")[1] of a header with a blank in it
SecondField(text) ==
    LET blanks == { i \in 1..Len(text) : SubSeq(text, i, i) = " " }
        first == CHOOSE i \in blanks : \A j \in blanks : i <= j
        later == { i \in blanks : i > first }
        stop == IF later = {} THEN Len(text) + 1
                ELSE CHOOSE i \in later : \A j \in later : i <= j
    IN  SubSeq(text, first + 1, stop - 1)

AuthReturned(user_data) ==
    [raised |-> FALSE, user_data |-> user_data, status_code |-> None]
HTTPException(status_code) ==
    [raised |-> TRUE, user_data |-> None, status_code |-> status_code]

\* auth_service.py, lines 17-71
verify_request_auth(request, auth_enabled) ==
    IF ~auth_enabled THEN AuthReturned(None)
    ELSE IF request.auth_manager \in {"absent", None}
    THEN HTTPException(503)
    ELSE LET cookie == request.cookie
             auth_header == request.authorization
             no_token == cookie \in {None, ""}
         IN  IF no_token /\ (auth_header \in {None, ""}
                             \/ ~StartsWith(auth_header, "Bearer "))
             THEN HTTPException(401)
             ELSE LET token == IF no_token THEN SecondField(auth_header)
                                           ELSE cookie
                      user_data == verify_jwt_token(token)
                  IN  IF user_data = None THEN HTTPException(401)
                                          ELSE AuthReturned(user_data)

\* the handler before a request has come in
HandlerIdle == [pc |-> "idle", user_data |-> None, status |-> None]

\* no request is being served
InitHandler == http = None /\ handler = HandlerIdle

\* the web layer at start-up
InitWeb == InitLimiter /\ limit = None /\ InitHandler

----------------------------------------------------------------------------
\* no turn has started
InitState ==
    /\ lock = {}
    /\ current_user_context = None
    /\ pc = [t \in Turns |-> "idle"]
    /\ req = [t \in Turns |-> [message |-> None, agent_type |-> None,
                               thread_id |-> None, user_context |-> None]]
    /\ thread_id = [t \in Turns |-> None]
    /\ session_history = [t \in Turns |-> <<>>]
    /\ stack = [t \in Turns |-> <<>>]
    /\ updated_history = [t \in Turns |-> <<>>]
    /\ result = [t \in Turns |-> NoResult]
    /\ client_called = {}
    /\ tool_log = {}
    /\ store_before = [t \in Turns |-> <<>>]
    /\ base = [t \in Turns |-> <<>>]
    /\ overlapped = {}

\* the state after AgentFrameworkManager.__init__, lines 54-56
Init ==
    InitState /\ sessions = <<>> /\ uuids = 0 /\ script = None /\ InitWeb

\* lines 299-321: the call, up to the lock
ChatCall(t, message, agent_type, tid, user_context) ==
    /\ UNCHANGED web_vars
    /\ pc[t] = "idle"
    /\ current_user_context' = user_context
    /\ req' = [req EXCEPT ![t] = [message |-> message, agent_type |-> agent_type,
                                  thread_id |-> tid,
                                  user_context |-> user_context]]
    /\ thread_id' = [thread_id EXCEPT ![t] = tid]
    /\ store_before' = [store_before EXCEPT ![t] = sessions]
    /\ pc' = [pc EXCEPT ![t] = "lock_snapshot"]
    /\ overlapped' = overlapped \cup
            IF tid # None /\ \E u \in Turns \ {t} :
                                InFlight(u) /\ thread_id[u] = tid
            THEN {t} \cup {u \in Turns \ {t} : InFlight(u) /\ thread_id[u] = tid}
            ELSE {}
    /\ UNCHANGED <<sessions, lock, uuids, session_history, stack,
                   updated_history, result, client_called, tool_log, base>>

\* lines 321 and 334/356: the turn enters the lock
AcquireLock(t) ==
    /\ UNCHANGED web_vars
    /\ pc[t] \in {"lock_snapshot", "lock_persist"}
    /\ LockFree
    /\ lock' = LockEnter(t)
    /\ pc' = [pc EXCEPT ![t] = IF pc[t] = "lock_snapshot" THEN "snapshot"
                                                          ELSE "persist"]
    /\ UNCHANGED <<sessions, current_user_context, uuids, req, thread_id,
                   session_history, stack, updated_history, result,
                   client_called, tool_log, store_before, base, script,
                   overlapped>>

\* how the code that ran up to `o` leaves the turn: at an await, failed with
\* an exception, or back in chat() with the engine's return value
Continue(t, o, history) ==
    /\ stack' = [stack EXCEPT ![t] = o.stack]
    /\ client_called' =
          IF o.status = "await" /\ Top(o.stack).awaiting = "client"
          THEN client_called \cup {t} ELSE client_called
    /\ tool_log' =
          IF o.status = "await" /\ Top(o.stack).awaiting = "tool"
          THEN tool_log \cup
                 {<<t, Top(o.stack).user_context,
                    Top(o.stack).tool_calls[Top(o.stack).idx].function.name>>}
          ELSE tool_log
    /\ pc' = [pc EXCEPT ![t] =
                CASE o.status = "await" -> "run"
                  [] o.status = "raise" -> "raised"
                  [] o.status = "return" -> "lock_persist"]
    /\ result' = [result EXCEPT ![t] =
                CASE o.status = "await" -> @
                  [] o.status = "raise" ->
                        [@ EXCEPT !.status = "raised", !.error = o.text]
                  [] o.status = "return" ->
                        \* lines 336 and 350: only the orchestrator path
                        \* keeps the usage
                        [@ EXCEPT !.response = o.text,
                                  !.usage = IF NormalizedType(req[t].agent_type)
                                                = "orchestrator"
                                            THEN o.usage ELSE None]]
    \* line 331 (orchestrator) and line 355 (specialist)
    /\ updated_history' = [updated_history EXCEPT ![t] =
                IF o.status = "return"
                   /\ NormalizedType(req[t].agent_type) = "orchestrator"
                THEN WithoutSystem(o.history) ELSE @]
    /\ session_history' = [session_history EXCEPT ![t] =
                IF o.status = "return"
                   /\ NormalizedType(req[t].agent_type) # "orchestrator"
                THEN history \o WithoutSystem(o.history) ELSE history]

\* a dispatch that hands whatever is no specialist key to the orchestrator
DispatchUnchecked(t, history) ==
    IF NormalizedType(req[t].agent_type) \in DOMAIN specialist_profiles
    THEN RunSpecialist(<<>>, NormalizedType(req[t].agent_type), req[t].message)
    ELSE RunOrchestrator(history)

\* lines 345-352 and 330-333: after the snapshot, up to the first await
Dispatch(t, history) ==
    LET normalized_type == NormalizedType(req[t].agent_type) IN
    IF normalized_type = "orchestrator"
    THEN RunOrchestrator(history)
    ELSE IF normalized_type \notin DOMAIN specialist_profiles
    THEN Raises("Unknown agent type: " \o req[t].agent_type)
    ELSE RunSpecialist(<<>>, normalized_type, req[t].message)

\* lines 322-328: get or create the thread, snapshot its history, leave the
\* lock, append the user message; then on to the engine
Snapshot(t) ==
    /\ UNCHANGED web_vars
    /\ pc[t] = "snapshot"
    /\ LET fresh == thread_id[t] = None \/ thread_id[t] \notin DOMAIN sessions
           tid == IF thread_id[t] = None THEN Uuid4(uuids + 1)
                                         ELSE thread_id[t]
           store == IF fresh THEN [k \in DOMAIN sessions \cup {tid} |->
                                      IF k = tid THEN <<>> ELSE sessions[k]]
                             ELSE sessions
           history == Append(store[tid], UserMessage(req[t].message))
       IN  /\ sessions' = store
           /\ uuids' = IF thread_id[t] = None THEN uuids + 1 ELSE uuids
           /\ thread_id' = [thread_id EXCEPT ![t] = tid]
           /\ base' = [base EXCEPT ![t] = store[tid]]
           /\ lock' = LockExit(t)
           /\ Continue(t, Dispatch(t, history), history)
    /\ UNCHANGED <<current_user_context, req, store_before, script,
                   overlapped>>

\* lines 425-436: the message list of the Completion Client call turn t is
\* waiting for
SentToClient(t) == FormatMessages(Top(stack[t]).history)

\* lines 432-539: the awaited Completion Client call returns one assistant
\* message, and the loop runs on to its next await
ClientResponds(t, response) ==
    /\ UNCHANGED web_vars
    /\ pc[t] = "run"
    /\ Top(stack[t]).awaiting = "client"
    /\ Continue(t, OnResponse(stack[t], response, current_user_context,
                              req[t].user_context),
                session_history[t])
    /\ UNCHANGED <<sessions, lock, current_user_context, uuids, req,
                   thread_id, store_before, base, overlapped>>

\* lines 432-440: the Completion Client call raises, or answers with no
\* message; nothing on the way up catches it
ClientFails(t) ==
    /\ UNCHANGED web_vars
    /\ pc[t] = "run"
    /\ Top(stack[t]).awaiting = "client"
    /\ Continue(t, Raises("No message in response"), session_history[t])
    /\ UNCHANGED <<sessions, lock, current_user_context, uuids, req,
                   thread_id, store_before, base, overlapped>>

\* lines 579-593: execute_tool_call ends in its worker thread, and the loop
\* runs on to its next await
ToolCompletes(t) ==
    /\ UNCHANGED web_vars
    /\ pc[t] = "run"
    /\ Top(stack[t]).awaiting = "tool"
    /\ LET f == Top(stack[t])
           call == f.tool_calls[f.idx]
       IN  \E outcome \in execute_tool_call(call.function.name,
                              f.arguments, f.user_context) :
              Continue(t, ExecuteToolCallDone(stack[t], outcome,
                                              current_user_context,
                                              req[t].user_context),
                       session_history[t])
    /\ UNCHANGED <<sessions, lock, current_user_context, uuids, req,
                   thread_id, store_before, base, script, overlapped>>

\* a write-back that would merge: the turn's new messages appended to
\* whatever the store holds by now
PersistedHistoryMerged(t) ==
    LET h == IF NormalizedType(req[t].agent_type) = "orchestrator"
             THEN updated_history[t] ELSE session_history[t]
    IN  sessions[thread_id[t]] \o SubSeq(h, Len(base[t]) + 1, Len(h))

\* the history chat() writes back: line 335 (orchestrator), line 357
PersistedHistory(t) ==
    IF NormalizedType(req[t].agent_type) = "orchestrator"
    THEN updated_history[t] ELSE session_history[t]

\* the agent_id of the ChatResult: line 340 (orchestrator), line 363
ResultAgentId(t) ==
    IF NormalizedType(req[t].agent_type) = "orchestrator"
    THEN orchestrator_agent_id
    ELSE specialist_profiles[NormalizedType(req[t].agent_type)].id

\* a write-back that stores the turn's history under every thread id
WriteBackEverywhere(store, id, history) == [k \in DOMAIN store |-> history]

\* self.sessions[thread_id] = ..., lines 335 and 357
WriteBack(store, id, history) == [store EXCEPT ![id] = history]

\* lines 334-343 and 356-365: write the history back, leave the lock, return
Persist(t) ==
    /\ UNCHANGED web_vars
    /\ pc[t] = "persist"
    /\ sessions' = WriteBack(sessions, thread_id[t], PersistedHistory(t))
    /\ lock' = LockExit(t)
    /\ uuids' = uuids + 1
    /\ result' = [result EXCEPT ![t] =
                    [@ EXCEPT !.status = "returned",
                              !.thread_id = thread_id[t],
                              !.agent_id = ResultAgentId(t),
                              !.run_id = Uuid4(uuids + 1)]]
    /\ pc' = [pc EXCEPT ![t] = "done"]
    /\ UNCHANGED <<current_user_context, req, thread_id, session_history,
                   stack, updated_history, client_called, tool_log,
                   store_before, base, script, overlapped>>

----------------------------------------------------------------------------
(* Concurrent turns: any interleaving of NumTurns chat() calls, the client  *)
(* answering each turn with tool calls at most MaxToolRounds times.         *)

\* concurrent turns carry different messages: "m1", "m2", ...
ConcurrentMessage(t) == "m" \o ToString(t)
ConcurrentAgentTypes == {None, "analytics", "bogus"}
ConcurrentContexts == {"ctxA", "ctxB"}
ConcurrentToolCalls ==
    { << ToolCall("call_1", "call_support_specialist", ArgsQuestion) >>,
      << ToolCall("call_1", "get_sales_summary", ArgsNoQuestion) >> }

Next ==
    \E t \in Turns :
        \/ \E agent_type \in ConcurrentAgentTypes,
              tid \in ThreadArgs, user_context \in ConcurrentContexts :
                /\ ChatCall(t, ConcurrentMessage(t), agent_type, tid,
                            user_context)
                /\ UNCHANGED script
        \/ AcquireLock(t)
        \/ Snapshot(t)
        \/ \E response \in FinalResponses :
                ClientResponds(t, response) /\ UNCHANGED script
        \/ \E c \in ConcurrentToolCalls :
                /\ stack[t] # <<>>
                /\ Top(stack[t]).iterations <= MaxToolRounds
                /\ ClientResponds(t, Response("", c, Usage))
                /\ UNCHANGED script
        \/ ClientFails(t) /\ UNCHANGED script
        \/ ToolCompletes(t)
        \/ Persist(t)

Spec == Init /\ [][Next]_vars

----------------------------------------------------------------------------
(* One turn, the client free in every answer.                               *)

\* the turn that opens a run of the model
First == CHOOSE t \in Turns : \A u \in Turns : t <= u

FreeResponses(t) ==
    IF stack[t] = <<>> THEN {} ELSE ClientResponses(Top(stack[t]))

NextTurn ==
    \/ \E message \in Messages, agent_type \in AgentTypes,
          tid \in ThreadArgs, user_context \in Contexts :
            ChatCall(First, message, agent_type, tid, user_context)
                /\ UNCHANGED script
    \/ AcquireLock(First)
    \/ Snapshot(First)
    \/ \E response \in FreeResponses(First) :
            ClientResponds(First, response) /\ UNCHANGED script
    \/ ClientFails(First) /\ UNCHANGED script
    \/ ToolCompletes(First)
    \/ Persist(First)

SpecTurn == Init /\ [][NextTurn]_vars

\* the Completion Client call the turn waits for returns, with an answer or
\* with a failure
ClientReturns(t) ==
    \/ ClientFails(t) /\ UNCHANGED script
    \/ \E response \in FreeResponses(t) :
            ClientResponds(t, response) /\ UNCHANGED script

\* one turn, to the orchestrator or to a specialist with or without tools,
\* whose Completion Client calls and tool executions all return
RunAgentTypes == {None, "financial", " Support "}

NextRun ==
    \/ \E agent_type \in RunAgentTypes :
            ChatCall(First, "m1", agent_type, None, None) /\ UNCHANGED script
    \/ AcquireLock(First)
    \/ Snapshot(First)
    \/ ClientReturns(First)
    \/ ToolCompletes(First)
    \/ Persist(First)

SpecRunFair ==
    /\ Init /\ [][NextRun]_vars
    /\ WF_vars(ClientReturns(First))
    /\ WF_vars(ToolCompletes(First))

----------------------------------------------------------------------------
(* A turn and its retries against a scripted client stub: the stub answers  *)
(* the i-th Completion Client call of every turn the same way, with the     *)
(* tool calls `calls` for i <= rounds and with `last` after that.  Turn 1   *)
(* is any chat() call; each later turn repeats its arguments once the turn  *)
(* before it has ended.                                                     *)

Scripts ==
    [calls : ClientToolCalls, rounds : 0..MaxScriptRounds,
     last : FinalResponses \cup {NoResponse}, served : {0}]

ScriptedResponse ==
    IF script.served < script.rounds
    THEN Response("", script.calls, Usage)
    ELSE script.last

Scripted(t) ==
    /\ IF ScriptedResponse.failed THEN ClientFails(t)
                                  ELSE ClientResponds(t, ScriptedResponse)
    /\ script' = [script EXCEPT !.served = @ + 1]

\* the same chat() call again, the stub set back to its first answer
Retry(t) ==
    /\ pc[t - 1] \in {"done", "raised"}
    /\ ChatCall(t, req[t - 1].message, req[t - 1].agent_type,
                req[t - 1].thread_id, req[t - 1].user_context)
    /\ script' = [script EXCEPT !.served = 0]

\* what an earlier successful turn on thread "t1" left in the store
EarlierHistory == << UserMessage("m0"), AssistantMessage("answer", <<>>) >>

\* the manager is fresh, or it has served one turn on thread "t1" before
InitRetry ==
    /\ InitState
    /\ script \in Scripts
    /\ \/ sessions = <<>> /\ uuids = 0
       \/ sessions = ("t1" :> EarlierHistory) /\ uuids = 1
    /\ InitWeb

\* the retried call: one message, without or with a user context
RetryMessages == {"m1"}
RetryContexts == {None, "ctxA"}

NextRetry ==
    \/ \E message \in RetryMessages, agent_type \in AgentTypes,
          tid \in ThreadArgs, user_context \in RetryContexts :
            ChatCall(First, message, agent_type, tid, user_context)
                /\ UNCHANGED script
    \/ \E t \in Turns \ {First} : Retry(t)
    \/ \E t \in Turns :
        \/ AcquireLock(t)
        \/ Snapshot(t)
        \/ Scripted(t)
        \/ ToolCompletes(t)
        \/ Persist(t)

SpecRetry == InitRetry /\ [][NextRetry]_vars

----------------------------------------------------------------------------
(* The rate limiter under calls of one limit: RateLimiter.check_rate_limit *)
(* for two clients and two paths, the clock moving on by half a window or  *)
(* a whole one between calls.                                              *)

\* the limits of a run: small max_requests, and as window_seconds the two
\* windows of RATE_LIMITS and one longer than cleanup_age
Limits == [max_requests : {1, 2}, window_seconds : {60, 3600, 7200}]
WindowIps == {"10.0.0.1", "10.0.0.2"}
WindowEndpoints == {"/api/auth/login", "/api/chat"}

InitWindow ==
    /\ InitState /\ sessions = <<>> /\ uuids = 0 /\ script = None
    /\ InitLimiter /\ limit \in Limits /\ InitHandler

\* time passes
Tick(dt, horizon) ==
    /\ clock + dt <= horizon
    /\ clock' = clock + dt
    /\ UNCHANGED <<requests, last_cleanup, verdict, accepted, checks, limit,
                   http, handler>>
    /\ UNCHANGED manager_vars

\* a check has run for ip_address and endpoint and ended as `o`
Checked(o, ip_address, endpoint) ==
    /\ requests' = o.requests
    /\ last_cleanup' = o.last_cleanup
    /\ verdict' = [ip |-> ip_address, endpoint |-> endpoint,
                   status |-> o.status, retry_after |-> o.retry_after]
    /\ accepted' = IF o.status = 200
                   THEN accepted (+) SetToBag({<<ip_address, endpoint, clock>>})
                   ELSE accepted
    /\ checks' = checks + 1
    /\ UNCHANGED <<clock, limit, http, handler>>
    /\ UNCHANGED manager_vars

\* one call of RateLimiter.check_rate_limit with the limit of the run
CheckRateLimit(ip_address, endpoint) ==
    /\ checks < MaxCalls
    /\ Checked(RateLimiterCheck(requests, last_cleanup, clock, ip_address,
                                endpoint, limit.max_requests,
                                limit.window_seconds),
               ip_address, endpoint)

NextWindow ==
    \/ \E dt \in {limit.window_seconds \div 2, limit.window_seconds} :
            Tick(dt, MaxWindows * limit.window_seconds)
    \/ \E ip_address \in WindowIps, endpoint \in WindowEndpoints :
            CheckRateLimit(ip_address, endpoint)

SpecWindow == InitWindow /\ [][NextWindow]_vars

----------------------------------------------------------------------------
(* The dependency check_rate_limit(request) under requests of one client   *)
(* to two admin paths, directly or through a proxy, within AdminTick       *)
(* seconds.                                                                *)

AdminTick == 30

AdminPaths == {"/api/admin/users", "/api/admin/agents"}
AdminRequests ==
    { [path |-> p, forwarded |-> None, client |-> "10.0.0.1"] :
        p \in AdminPaths }
    \cup { [path |-> p, forwarded |-> "10.0.0.1, 172.16.0.1",
            client |-> "172.16.0.1"] : p \in AdminPaths }

\* one request passes through the dependency
AdminCheck(request) ==
    /\ checks < MaxAdminCalls
    /\ Checked(check_rate_limit(requests, last_cleanup, clock, request),
               get_client_ip(request), request.path)

NextAdmin ==
    \/ Tick(AdminTick, AdminTick)
    \/ \E request \in AdminRequests : AdminCheck(request)

SpecAdmin == Init /\ [][NextAdmin]_vars

----------------------------------------------------------------------------
(* One POST /api/chat: chat_with_agent authenticates the request, sets the *)
(* RLS context, and runs the chat manager through                          *)
(* ChatService.process_chat_message.                                       *)

\* the request and the application state it meets: the
\* enable_authentication setting, app.state.auth_manager, the auth_token
\* cookie, the Authorization header and the validated body
ChatRequests ==
    [enable_authentication : BOOLEAN,
     auth_manager : {"absent", None, "AuthManager"},
     cookie : {None, "tokA", "forged"},
     authorization : {None, "Bearer tokB", "Bearer forged", "Basic tokB",
                      "Bearer "},
     message : {"m1"},
     agent_type : {"orchestrator", "analytics"},
     thread_id : {None}]

InitAuth ==
    /\ InitState /\ sessions = <<>> /\ uuids = 0 /\ script = None
    /\ InitLimiter /\ limit = None
    /\ http \in ChatRequests
    /\ handler = [HandlerIdle EXCEPT !.pc = "auth"]

\* routes_chat.py, lines 64-71: verify_request_auth returns the user data,
\* or its HTTPException ends the request
Authenticate ==
    /\ handler.pc = "auth"
    /\ handler' =
          IF ~http.enable_authentication
          THEN [handler EXCEPT !.pc = "chat"]
          ELSE LET o == verify_request_auth(http, http.enable_authentication)
               IN  IF o.raised
                   THEN [handler EXCEPT !.pc = "responded",
                                        !.status = o.status_code]
                   ELSE [handler EXCEPT !.pc = "rls",
                                        !.user_data = o.user_data]
    /\ UNCHANGED <<requests, last_cleanup, clock, verdict, accepted, checks,
                   limit, http>>
    /\ UNCHANGED manager_vars

\* routes_chat.py, line 74, chat_service.py, lines 26-65: set_rls_context
\* returns, having set the context, skipped it or failed on the way
SetRlsContext ==
    /\ handler.pc = "rls"
    /\ handler' = [handler EXCEPT !.pc = "chat"]
    /\ UNCHANGED <<requests, last_cleanup, clock, verdict, accepted, checks,
                   limit, http>>
    /\ UNCHANGED manager_vars

\* routes_chat.py, lines 77-84, chat_service.py, lines 95-100: the chat
\* manager is called with the user data as user_context
ProcessChatMessage ==
    /\ handler.pc = "chat"
    /\ ChatCall(First, http.message, http.agent_type, http.thread_id,
                handler.user_data)
    /\ UNCHANGED script

\* chat_service.py, lines 129-157, routes_chat.py, line 86: the manager's
\* result becomes the response, its exception a 500
Respond ==
    /\ handler.pc = "chat"
    /\ pc[First] \in {"done", "raised"}
    /\ handler' = [handler EXCEPT !.pc = "responded",
                                  !.status = IF pc[First] = "done" THEN 200
                                                                   ELSE 500]
    /\ UNCHANGED <<requests, last_cleanup, clock, verdict, accepted, checks,
                   limit, http>>
    /\ UNCHANGED manager_vars

\* the Completion Client call of the turn returns: a final answer, one of
\* the tool-call lists of the concurrent model in the first MaxToolRounds
\* answers of an engine run, or a failure
ClientAnswers(t) ==
    \/ \E response \in FinalResponses :
            ClientResponds(t, response) /\ UNCHANGED script
    \/ \E c \in ConcurrentToolCalls :
            /\ stack[t] # <<>>
            /\ Top(stack[t]).iterations <= MaxToolRounds
            /\ ClientResponds(t, Response("", c, Usage))
            /\ UNCHANGED script
    \/ ClientFails(t) /\ UNCHANGED script

NextAuth ==
    \/ Authenticate
    \/ SetRlsContext
    \/ ProcessChatMessage
    \/ AcquireLock(First)
    \/ Snapshot(First)
    \/ ClientAnswers(First)
    \/ ToolCompletes(First)
    \/ Persist(First)
    \/ Respond

SpecAuth == InitAuth /\ [][NextAuth]_vars

----------------------------------------------------------------------------
(* Properties *)

Ended(t) == pc[t] \in {"done", "raised"}
Orchestrated(t) == NormalizedType(req[t].agent_type) = "orchestrator"

\* C1: every tool execution launched by a turn is handed the user context
\* that this turn's own chat() call was given, whatever other turns are
\* in flight at the same time.
C1_OwnContext ==
    \A e \in tool_log : e[2] = req[e[1]].user_context

\* the history turn t computed for its thread
Computed(t) == IF Orchestrated(t) THEN updated_history[t] ELSE session_history[t]

Holds(history, m) == \E i \in 1..Len(history) : history[i] = m

\* turns t and u ran on the same thread from the same snapshot: neither saw
\* what the other wrote
SameSnapshot(t, u) ==
    /\ t # u
    /\ thread_id[t] = thread_id[u]
    /\ base[t] = base[u]
    /\ {t, u} \subseteq overlapped

\* C2: when two turns on the same thread both snapshot before either
\* persists, the one that persists last overwrites the other's result: the
\* stored history is then exactly what the last one computed from its own
\* snapshot, and the other turn's user message is not in it.
C2_LastWriteWins ==
    [][\A t \in Turns, u \in Turns :
          (pc[t] = "persist" /\ pc'[t] = "done" /\ pc[u] = "done"
                /\ SameSnapshot(t, u))
          => /\ sessions'[thread_id[t]] = Computed(t)
             /\ Holds(sessions'[thread_id[t]], UserMessage(req[t].message))
             /\ ~Holds(sessions'[thread_id[t]], UserMessage(req[u].message))
       ]_vars

C2_Witness ==
    \E t \in Turns, u \in Turns :
        /\ pc[t] = "done" /\ pc[u] = "done"
        /\ SameSnapshot(t, u)
        /\ sessions[thread_id[t]] = Computed(t)
        /\ Holds(Computed(u), UserMessage(req[u].message))
        /\ ~Holds(sessions[thread_id[t]], UserMessage(req[u].message))

\* C3: the session store is read and written only by a turn that holds the
\* single session lock, at most one turn holds the lock at a time, and a
\* turn holds it only inside its snapshot or its write-back section, never
\* while it waits for the Completion Client or a tool.
C3_LockDiscipline ==
    [][/\ Cardinality(lock) <= 1
       /\ \A t \in Turns :
            /\ t \in lock <=> pc[t] \in {"snapshot", "persist"}
            /\ pc[t] = "run" =>
                    /\ t \notin lock
                    /\ Top(stack[t]).awaiting \in {"client", "tool"}
            \* the read: the step that takes the snapshot
            /\ (pc[t] = "snapshot" /\ pc'[t] # "snapshot") =>
                    /\ lock = {t}
                    /\ base'[t] = sessions'[thread_id'[t]]
            \* the snapshot stays what it was once the lock is left
            /\ pc[t] \in {"run", "lock_persist", "persist"} =>
                    base'[t] = base[t]
       \* the writes
       /\ sessions' # sessions =>
            \E t \in Turns : lock = {t} /\ pc'[t] # pc[t] /\ t \notin lock'
      ]_vars

C3_Witness ==
    \E t \in Turns, u \in Turns :
        /\ lock = {t} /\ pc[t] = "persist"
        /\ pc[u] = "lock_persist"
        /\ thread_id[t] = thread_id[u]

\* the messages of `history` after its first n
After(history, n) == SubSeq(history, n + 1, Len(history))

IsPrefix(p, history) ==
    Len(p) <= Len(history) /\ SubSeq(history, 1, Len(p)) = p

\* what the store held for turn t's thread when chat() was called
StoredBefore(t) ==
    IF req[t].thread_id \in DOMAIN store_before[t]
    THEN store_before[t][req[t].thread_id] ELSE <<>>

\* C4: when no other turn is in flight on the same thread, a successful
\* orchestrator turn loses nothing: the history it stores is the history
\* stored before the turn, then the new user message, then assistant and
\* tool messages only, the last of them the answer the turn returns.
C4_NothingLost ==
    [][\A t \in Turns :
          (pc[t] = "persist" /\ pc'[t] = "done" /\ Orchestrated(t)
                /\ t \notin overlapped)
          => LET before == sessions[thread_id[t]]
                 after == sessions'[thread_id[t]]
                 appended == After(after, Len(before) + 1)
             IN  /\ before = StoredBefore(t)
                 /\ IsPrefix(Append(before, UserMessage(req[t].message)),
                             after)
                 /\ appended # <<>>
                 /\ \A i \in 1..Len(appended) :
                        appended[i].role \in {"assistant", "tool"}
                 /\ appended[Len(appended)] =
                        AssistantMessage(result[t].response, <<>>)
                 /\ \A k \in DOMAIN sessions \ {thread_id[t]} :
                        sessions'[k] = sessions[k]
      ]_vars

\* a second orchestrator turn has been stored on top of the first one's
\* history, tool messages included
C4_Witness ==
    \E t \in Turns, u \in Turns :
        /\ t # u /\ pc[t] = "done" /\ pc[u] = "done"
        /\ Orchestrated(t) /\ Orchestrated(u)
        /\ overlapped = {}
        /\ thread_id[t] = thread_id[u]
        /\ base[u] = <<>> /\ Len(base[t]) > 2
        /\ IsPrefix(Append(base[t], UserMessage(req[t].message)),
                    sessions[thread_id[t]])
        /\ \E i \in 1..Len(sessions[thread_id[t]]) :
                /\ i > Len(base[t])
                /\ sessions[thread_id[t]][i].role = "tool"

\* the turn the scripted client is serving: the last one started
Current(t) == pc[t] # "idle" /\ \A u \in Turns : u > t => pc[u] = "idle"

Stepped(t) == stack'[t] # stack[t] \/ pc'[t] # pc[t]

\* frame i of turn t has had its last permitted completion and is working
\* through the tool calls it carried
Exhausted(t, i) ==
    /\ pc[t] = "run"
    /\ i \in 1..Len(stack[t])
    /\ stack[t][i].iterations = max_iterations
    /\ stack[t][i].tool_calls # <<>>

\* the scripted client is about to answer the top frame's last permitted
\* completion call with tool calls, and the frame has an executor
LastCallGetsToolCalls(t) ==
    /\ pc[t] = "run"
    /\ Top(stack[t]).awaiting = "client"
    /\ Top(stack[t]).iterations = max_iterations
    /\ Top(stack[t]).tool_executor # None
    /\ script.served < script.rounds

\* the turn's top-level engine run executes every tool call itself: a
\* specialist with tools, or the orchestrator asked for names that route
\* nowhere
RunsAlone(t) ==
    IF Orchestrated(t)
    THEN \A i \in 1..Len(script.calls) :
            tool_to_agent(script.calls[i].function.name) = None
    ELSE /\ NormalizedType(req[t].agent_type) \in SpecialistKeys
         /\ SpecialistExecutor(NormalizedType(req[t].agent_type)) # None

FailedAtMaximum(t) ==
    /\ pc[t] = "raised"
    /\ result[t].status = "raised"
    /\ result[t].error = MaxIterationsError
    /\ result[t].response = None

StoreAsBefore(t) ==
    /\ sessions[thread_id[t]] = StoredBefore(t)
    /\ \A k \in DOMAIN store_before[t] : sessions[k] = store_before[t][k]

\* C5: an engine run whose fifth (max_iterations-th) completion still
\* carries tool calls makes no sixth call and returns no answer: it ends
\* with the fatal "exceeded maximum iterations" error; the failed turn
\* leaves the stored history of its thread, and of every other thread, as
\* it was before the turn; and the same chat() call repeated against the
\* same scripted client fails in the same way.
C5_MaxIterations ==
    [][\A t \in Turns :
        /\ (LastCallGetsToolCalls(t) /\ Stepped(t)) =>
                \/ FailedAtMaximum(t)'
                \/ Exhausted(t, Len(stack[t]))'
        /\ \A i \in 1..Len(stack[t]) :
              (Exhausted(t, i) /\ Stepped(t)) =>
                \/ Exhausted(t, i)'
                \/ /\ pc'[t] = "raised"
                   /\ i = Len(stack[t]) => FailedAtMaximum(t)'
        /\ (Ended(t) /\ Current(t) /\ RunsAlone(t)
                /\ script.rounds >= 5) =>
                FailedAtMaximum(t) /\ script.served = 5
        /\ FailedAtMaximum(t) => StoreAsBefore(t)
        /\ (t > 1 /\ FailedAtMaximum(t - 1) /\ Ended(t)) =>
                FailedAtMaximum(t) /\ StoreAsBefore(t - 1)
      ]_vars

\* the retry has failed at the maximum like the turn before it, and the
\* thread still holds what the earlier turn left
C5_Witness ==
    \E t \in Turns :
        /\ t > 1
        /\ FailedAtMaximum(t - 1) /\ FailedAtMaximum(t)
        /\ req[t] = req[t - 1]
        /\ thread_id[t] = "t1"
        /\ sessions["t1"] = EarlierHistory
        /\ script.served = 5
        /\ tool_log # {}

\* the exceptions a call to a tool can end with, as the text str(exc) gives
ToolErrors(name) ==
    IF name \notin tool_map
    THEN {"Unknown tool: " \o name}
    ELSE {name \o " failed", "TypeError",
          "TypeError: unexpected keyword argument user_context"}

\* the call can only fail: its name is not registered, or it is handed a
\* user_context parameter it does not take
MustFail(name, user_context) ==
    \/ name \notin tool_map
    \/ user_context # None /\ name \notin AcceptsUserContext

HasErrorField(content, name) ==
    \E e \in ToolErrors(name) : content = JsonError(e)

\* C6: when a specialist's tool execution ends, with a result or with an
\* exception (the tool throws, or its name is not registered), the run does
\* not terminate on it: the history grows by exactly one tool message that
\* answers this call, carrying an "error" field whenever the call could
\* only fail, and the engine goes on to the next tool call of the same
\* assistant message or, after the last one, to the next completion call.
\* Only the iteration budget can end the run at this point.
C6_ToolErrorContinues ==
    [][\A t \in Turns :
        (pc[t] = "run" /\ Top(stack[t]).awaiting = "tool" /\ Stepped(t))
        => LET d == Len(stack[t])
               f == stack[t][d]
               call == f.tool_calls[f.idx]
               name == call.function.name
               last == f.idx = Len(f.tool_calls)
           IN  IF last /\ f.iterations = max_iterations
               THEN FailedAtMaximum(t)'
               ELSE /\ pc'[t] = "run"
                    /\ Len(stack'[t]) = d
                    /\ LET g == stack'[t][d]
                           m == g.history[Len(g.history)]
                       IN  /\ g.history = Append(f.history, m)
                           /\ m.role = "tool"
                           /\ m.tool_call_id = call.id
                           /\ MustFail(name, f.user_context)
                                => HasErrorField(m.content, name)
                           /\ IF last
                              THEN /\ g.awaiting = "client"
                                   /\ g.iterations = f.iterations + 1
                              ELSE /\ g.awaiting = "tool"
                                   /\ g.iterations = f.iterations
                                   /\ g.idx = f.idx + 1
      ]_vars

\* an unregistered tool name has been answered with an error message and
\* the engine is executing the next call of the same assistant message,
\* in a run where an earlier tool threw and the loop went on
C6_Witness ==
    \E t \in Turns :
        /\ pc[t] = "run"
        /\ LET f == Top(stack[t])
               h == f.history
           IN  /\ f.awaiting = "tool" /\ f.idx = 2
               /\ h[Len(h)].role = "tool"
               /\ h[Len(h)].tool_call_id = "call_1"
               /\ h[Len(h)].content = JsonError("Unknown tool: no_such_tool")
               /\ f.iterations > 1
               /\ \E i \in 1..Len(h) :
                    h[i].content = JsonError("calculate_roi failed")

\* the orchestrator's answer to one round of calls that route nowhere: the
\* assistant message, then one error message per call
UnroutedReplies(calls) ==
    [i \in 1..Len(calls) |->
        [role |-> "tool",
         content |-> "{\"error\": \"Unknown tool " \o calls[i].function.name
                        \o "\"}",
         tool_calls |-> <<>>,
         tool_call_id |-> calls[i].id]]

RECURSIVE UnroutedRounds(_, _)
UnroutedRounds(n, calls) ==
    IF n = 0 THEN <<>>
    ELSE <<AssistantMessage("", calls)>> \o UnroutedReplies(calls)
            \o UnroutedRounds(n - 1, calls)

\* C7: an orchestrator tool call whose name maps to no specialist is
\* answered with the error payload {"error": "Unknown tool <name>"}, which
\* names what was asked for, as that call's tool result, and nothing is
\* raised: the orchestrator turn goes on and, once the client answers in
\* plain text, ends successfully with one such tool message per call.
C7_UnknownSpecialist ==
    \A t \in Turns :
        (Ended(t) /\ Current(t) /\ Orchestrated(t) /\ RunsAlone(t)
            /\ script.rounds < max_iterations /\ ~script.last.failed)
        => /\ pc[t] = "done"
           /\ result[t].error = None
           /\ result[t].response = script.last.text
           /\ sessions[thread_id[t]] =
                Append(StoredBefore(t), UserMessage(req[t].message))
                    \o UnroutedRounds(script.rounds, script.calls)
                    \o <<AssistantMessage(script.last.text, <<>>)>>

C7_Witness ==
    \E t \in Turns :
        /\ pc[t] = "done" /\ Current(t) /\ Orchestrated(t)
        /\ script.rounds = 2
        /\ script.calls[1].function.name = "call_missing_specialist"
        /\ LET h == sessions[thread_id[t]]
           IN  /\ Len(h) > 4
               /\ h[Len(h) - 1].role = "tool"
               /\ h[Len(h) - 1].content =
                    "{\"error\": \"Unknown tool call_missing_specialist\"}"

\* turn t asks for a specialist that has no tools, so its run has no executor
Toolless(t) ==
    /\ NormalizedType(req[t].agent_type) \in SpecialistKeys
    /\ specialist_profiles[NormalizedType(req[t].agent_type)].tools = {}

\* the scripted client makes the orchestrator route to a specialist that has
\* no tools, and asks for tools again in its answer to that specialist
RoutesToToolless(t) ==
    /\ Orchestrated(t)
    /\ script.rounds >= 2
    /\ tool_to_agent(script.calls[1].function.name) \in SpecialistKeys
    /\ specialist_profiles[
            tool_to_agent(script.calls[1].function.name)].tools = {}

FailedWithoutExecutor(t) ==
    /\ pc[t] = "raised"
    /\ result[t].status = "raised"
    /\ result[t].error = "Tool calls encountered but no executor provided"
    /\ result[t].response = None

\* C8: an engine run that was given no Tool Executor and receives an
\* assistant message with tool calls fails at once with a fatal error: the
\* completion call that brought the tool calls is the run's last one, no
\* tool is executed, no answer is returned and nothing is stored.
C8_NoExecutorFatal ==
    /\ \A t \in Turns :
        (Ended(t) /\ Current(t)) =>
            /\ (Toolless(t) /\ script.rounds >= 1) =>
                    /\ FailedWithoutExecutor(t)
                    /\ script.served = 1
                    /\ \A e \in tool_log : e[1] # t
                    /\ StoreAsBefore(t)
            /\ RoutesToToolless(t) =>
                    /\ FailedWithoutExecutor(t)
                    /\ script.served = 2
                    /\ \A e \in tool_log : e[1] # t
                    /\ StoreAsBefore(t)
    \* while such a run is alive it has made one call and handled no tool
    /\ \A t \in Turns : \A i \in 1..Len(stack[t]) :
        stack[t][i].tool_executor = None =>
            /\ stack[t][i].iterations = 1
            /\ stack[t][i].awaiting = "client"
            /\ stack[t][i].tool_calls = <<>>
            /\ Len(stack[t][i].history) = 2

C8_Witness ==
    \E t \in Turns :
        /\ Current(t) /\ Toolless(t)
        /\ FailedWithoutExecutor(t)
        /\ t \in client_called
        /\ script.rounds >= 1 /\ script.served = 1
        /\ thread_id[t] = "t1"
        /\ sessions["t1"] = EarlierHistory

\* the agent type of turn t denotes neither the orchestrator (by name, by
\* one of its aliases, or by default) nor a specialist of the registry
UnknownAgentType(t) ==
    /\ pc[t] # "idle"
    /\ StripLower(req[t].agent_type)
            \notin {"", "sales", "orchestrator", "auto", "default"}
    /\ StripLower(req[t].agent_type) \notin SpecialistKeys

\* C9: a chat() call whose agent type is neither the orchestrator nor a key
\* of the specialist registry is rejected with "Unknown agent type: <type>"
\* and never calls the Completion Client: no engine run starts, no tool
\* runs, no answer is returned.
C9_UnknownTypeRejected ==
    \A t \in Turns :
        UnknownAgentType(t) =>
            /\ t \notin client_called
            /\ stack[t] = <<>>
            /\ \A e \in tool_log : e[1] # t
            /\ pc[t] \in {"lock_snapshot", "snapshot", "raised"}
            /\ pc[t] = "raised" =>
                    /\ result[t].status = "raised"
                    /\ result[t].error =
                            "Unknown agent type: " \o req[t].agent_type
                    /\ result[t].response = None

C9_Witness ==
    \E t \in Turns :
        /\ UnknownAgentType(t)
        /\ req[t].agent_type = "bogus"
        /\ pc[t] = "raised"
        /\ result[t].error = "Unknown agent type: bogus"
        /\ client_called = {}

\* an assistant message that carries text only
TextMessage(text) ==
    [role |-> "assistant", content |-> text, tool_calls |-> <<>>,
     tool_call_id |-> None]

\* the run on top of turn t's stack waits for its first completion, and the
\* scripted client will answer it with text and no tool calls
FirstCompletionToolFree(t) ==
    /\ pc[t] = "run"
    /\ Top(stack[t]).awaiting = "client"
    /\ Top(stack[t]).iterations = 1
    /\ script.served >= script.rounds
    /\ ~script.last.failed

\* C10: whatever the seed history H of an engine run, when its first
\* completion carries no tool calls the run ends with that one Completion
\* Client call and returns the completion's text, H followed by the
\* assistant message, and the usage; no tool is executed.  chat() stores
\* the returned history without its system message; a routed specialist's
\* text comes back to the orchestrator as the routed call's tool result.
C10_ToolFreeFirstCompletion ==
    [][\A t \in Turns :
        /\ (FirstCompletionToolFree(t) /\ Stepped(t)) =>
            LET H == Top(stack[t]).history
                text == script.last.text
                returned == Append(H, TextMessage(text))
            IN  /\ script'.served = script.served + 1
                /\ tool_log' = tool_log
                /\ IF Len(stack[t]) = 1
                   THEN /\ pc'[t] = "lock_persist"
                        /\ result'[t].response = text
                        /\ H[1].role = "system"
                        /\ IF Orchestrated(t)
                           THEN /\ After(H, 1) = session_history[t]
                                /\ updated_history'[t] = After(returned, 1)
                                /\ result'[t].usage = script.last.usage
                           ELSE /\ After(H, 1) = <<UserMessage(req[t].message)>>
                                /\ session_history'[t] =
                                      session_history[t] \o After(returned, 1)
                   ELSE \/ FailedAtMaximum(t)'
                        \/ /\ pc'[t] = "run"
                           /\ Len(stack'[t]) = Len(stack[t]) - 1
                           /\ Top(stack'[t]).awaiting = "client"
                           /\ LET h == Top(stack'[t]).history
                              IN  h[Len(h)].content =
                                    JsonPayload(
                                      DisplayName(Top(stack[t]).agent),
                                      "id:" \o Top(stack[t]).agent, text)
        \* a turn whose first completion is tool-free has called once
        /\ (Ended(t) /\ Current(t) /\ ~UnknownAgentType(t)
                /\ script.rounds = 0 /\ ~script.last.failed) =>
                /\ pc[t] = "done"
                /\ script.served = 1
                /\ \A e \in tool_log : e[1] # t
                /\ sessions[thread_id[t]][Len(sessions[thread_id[t]])] =
                        TextMessage(script.last.text)
      ]_vars

\* a turn on a thread that already held a history has ended with the one
\* tool-free completion, usage included
C10_Witness ==
    \E t \in Turns :
        /\ pc[t] = "done" /\ Current(t) /\ Orchestrated(t)
        /\ script.rounds = 0 /\ script.served = 1
        /\ result[t].response = "answer" /\ result[t].usage = Usage
        /\ thread_id[t] = "t1"
        /\ Len(base[t]) >= 2
        /\ sessions["t1"] =
                base[t] \o <<UserMessage(req[t].message), TextMessage("answer")>>
        /\ tool_log = {}

\* the number of messages the i-th engine run of turn t was seeded with
SeedLen(t, i) ==
    IF i = 1 /\ Orchestrated(t) THEN 1 + Len(session_history[t]) ELSE 2

\* what the i-th engine run of turn t has appended to its seed
Appended(t, i) == After(stack[t][i].history, SeedLen(t, i))

CountRole(history, role) ==
    Cardinality({i \in 1..Len(history) : history[i].role = role})

\* the tool calls carried by the assistant messages of a history, counted
CountCalls(history) ==
    Cardinality(UNION {{<<i, j>> : j \in 1..Len(history[i].tool_calls)} :
                            i \in 1..Len(history)})

\* the number of tool-call iterations `history` consists of: each an
\* assistant message with tool calls followed by one tool message per call,
\* in the calls' order and with the calls' ids; -1 if it is not of this form
RECURSIVE RoundsIn(_)
RoundsIn(history) ==
    IF history = <<>> THEN 0
    ELSE LET a == history[1]
             k == Len(a.tool_calls)
         IN  IF /\ a.role = "assistant" /\ k > 0 /\ Len(history) >= 1 + k
                /\ \A j \in 1..k :
                      /\ history[1 + j].role = "tool"
                      /\ history[1 + j].tool_call_id = a.tool_calls[j].id
             THEN LET r == RoundsIn(After(history, 1 + k))
                  IN  IF r < 0 THEN -1 ELSE r + 1
             ELSE -1

\* C11: an engine run that has been through N tool-call iterations
\* (N < max_iterations) and is about to make its next completion call has
\* appended exactly N assistant messages and as many tool messages as those
\* assistant messages carry tool calls, each tool message with the id of
\* the call it answers.
C11_IterationCounts ==
    \A t \in Turns : \A i \in 1..Len(stack[t]) :
        stack[t][i].awaiting = "client" =>
            LET N == stack[t][i].iterations - 1
                appended == Appended(t, i)
            IN  /\ N < max_iterations
                /\ CountRole(appended, "assistant") = N
                /\ CountRole(appended, "tool") = CountCalls(appended)
                /\ Len(appended) = N + CountCalls(appended)
                /\ RoundsIn(appended) = N

\* a run has been through three iterations, two calls each
C11_Witness ==
    \E t \in Turns :
        /\ pc[t] = "run"
        /\ Top(stack[t]).awaiting = "client"
        /\ Top(stack[t]).iterations = 4
        /\ CountRole(Appended(t, Len(stack[t])), "tool") = 6
        /\ RoundsIn(Appended(t, Len(stack[t]))) = 3

\* the position of the nearest assistant message before position i, or 0
RECURSIVE NearestAssistant(_, _)
NearestAssistant(history, i) ==
    IF i <= 1 THEN 0
    ELSE IF history[i - 1].role = "assistant" THEN i - 1
    ELSE NearestAssistant(history, i - 1)

\* every tool message of `history` answers a call of the nearest assistant
\* message before it
Referenced(history) ==
    \A i \in 1..Len(history) :
        history[i].role = "tool" =>
            LET k == NearestAssistant(history, i)
            IN  /\ k > 0
                /\ \E c \in 1..Len(history[k].tool_calls) :
                        history[k].tool_calls[c].id = history[i].tool_call_id

\* C12: in every history an engine run is building, in the histories chat()
\* holds, and in every stored thread history, the tool_call_id of each tool
\* message is the id of a tool call carried by the nearest assistant message
\* before it.
C12_ToolCallIdReferenced ==
    /\ \A t \in Turns :
        /\ \A i \in 1..Len(stack[t]) : Referenced(stack[t][i].history)
        /\ Referenced(session_history[t])
        /\ Referenced(updated_history[t])
    /\ \A k \in DOMAIN sessions : Referenced(sessions[k])

\* a thread holds two turns' tool messages, the second call of a block among
\* them, while a run builds on it
C12_Witness ==
    \E t \in Turns :
        /\ pc[t] = "done" /\ t > 1
        /\ thread_id[t] = "t1"
        /\ CountRole(base[t], "tool") >= 2
        /\ CountRole(sessions["t1"], "tool") >= 2 * CountRole(base[t], "tool")
        /\ \E i \in 1..Len(sessions["t1"]) :
                /\ sessions["t1"][i].role = "tool"
                /\ sessions["t1"][i].tool_call_id = "call_2"

\* the position of the last assistant message of `history`, or 0
LastAssistant(history) == NearestAssistant(history, Len(history) + 1)

\* the last assistant message of `history` is followed by the tool messages
\* of its first n calls, in the calls' order, and by nothing else
AnsweredInOrder(history, n) ==
    LET k == LastAssistant(history)
    IN  /\ k > 0
        /\ n <= Len(history[k].tool_calls)
        /\ Len(history) = k + n
        /\ \A j \in 1..n :
              /\ history[k + j].role = "tool"
              /\ history[k + j].tool_call_id = history[k].tool_calls[j].id

\* C13: an engine run handles the tool calls of an assistant message one at
\* a time in the order emitted: while call number idx is being executed (or
\* routed), the assistant message is followed by the tool messages of calls
\* 1..idx-1 in that order and by nothing else, so the call started after the
\* one before it was answered; the run asks the client again only when every
\* call of the message has its tool message; and a turn never has two
\* executions or calls in flight at once.
C13_SequentialToolCalls ==
    \A t \in Turns : \A i \in 1..Len(stack[t]) :
        LET f == stack[t][i]
            appended == Appended(t, i)
        IN  /\ i < Len(stack[t]) => f.awaiting = None
            /\ i = Len(stack[t]) => f.awaiting \in {"client", "tool"}
            /\ (f.awaiting = "tool" \/ i < Len(stack[t])) =>
                    /\ f.idx \in 1..Len(f.tool_calls)
                    /\ AnsweredInOrder(appended, f.idx - 1)
                    /\ appended[LastAssistant(appended)].tool_calls
                            = f.tool_calls
            /\ (f.awaiting = "client" /\ appended # <<>>) =>
                    AnsweredInOrder(appended,
                        Len(appended[LastAssistant(appended)].tool_calls))

\* the second call of an assistant message is being executed, the first one
\* answered, in a run that has completed an iteration before
C13_Witness ==
    \E t \in Turns :
        /\ pc[t] = "run"
        /\ LET f == Top(stack[t])
               appended == Appended(t, Len(stack[t]))
           IN  /\ f.awaiting = "tool" /\ f.idx = 2 /\ f.iterations = 2
               /\ Len(f.tool_calls) = 2
               /\ AnsweredInOrder(appended, 1)
               /\ appended[Len(appended)].tool_call_id = "call_1"

\* turn t waits for a Completion Client call made by a routed specialist run
RoutedCall(t) ==
    /\ pc[t] = "run"
    /\ Len(stack[t]) >= 2
    /\ Top(stack[t]).awaiting = "client"

\* the orchestrator's call that routed the run on top of turn t's stack
RoutingCall(t) ==
    LET parent == stack[t][Len(stack[t]) - 1]
    IN  parent.tool_calls[parent.idx]

\* the question the routing call carries
RoutedQuestion(t) ==
    Strip(GetQuestion(OrchestratorArguments(RoutingCall(t).function.arguments)))

\* C14: every message list a routed specialist's run sends to the
\* Completion Client begins with the specialist's own system prompt and the
\* routed question, and holds nothing else but what that run itself has
\* appended; neither of the two seed messages is a message of the
\* orchestrator's transcript or of the thread's stored history, and the list
\* is no longer than the seed plus the run's own iterations.
C14_FreshSpecialistHistory ==
    \A t \in Turns :
        RoutedCall(t) =>
            LET sent == SentToClient(t)
                key == tool_to_agent(RoutingCall(t).function.name)
                transcript == stack[t][Len(stack[t]) - 1].history
            IN  /\ Len(stack[t]) = 2
                /\ sent[1] = [role |-> "system", content |-> "prompt:" \o key,
                               tool_calls |-> <<>>, tool_call_id |-> None]
                /\ sent[2] = [role |-> "user", content |-> RoutedQuestion(t),
                               tool_calls |-> <<>>, tool_call_id |-> None]
                /\ RoundsIn(After(sent, 2)) = Top(stack[t]).iterations - 1
                /\ \A i \in 1..2 :
                        /\ ~Holds(transcript, sent[i])
                        /\ ~Holds(base[t], sent[i])
                /\ \A i \in 1..Len(sent) :
                        sent[i].role = "user" => i = 2

\* a routed run is in its second iteration while the thread holds an earlier
\* turn's history and the orchestrator's transcript holds the user message
C14_Witness ==
    \E t \in Turns :
        /\ RoutedCall(t)
        /\ Top(stack[t]).iterations = 2
        /\ base[t] = EarlierHistory
        /\ Holds(stack[t][1].history, UserMessage(req[t].message))
        /\ Len(SentToClient(t)) = 4
        /\ SentToClient(t)[2].content = "not json"

\* turn t waits for the first Completion Client call of its top-level run
FirstCall(t) ==
    /\ pc[t] = "run"
    /\ Len(stack[t]) = 1
    /\ Top(stack[t]).awaiting = "client"
    /\ Top(stack[t]).iterations = 1

\* the system prompt of turn t's top-level run
TurnPrompt(t) ==
    IF Orchestrated(t) THEN orchestrator_prompt
    ELSE specialist_profiles[NormalizedType(req[t].agent_type)].prompt

\* C15: the first Completion Client call of every turn, orchestrator or
\* specialist, receives the system prompt, then the history snapshot fetched
\* from the store for the thread, then the new user message.
C15_StoredHistoryHandedOver ==
    \A t \in Turns :
        FirstCall(t) =>
            SentToClient(t) =
                FormatMessages(<<SystemMessage(TurnPrompt(t))>> \o base[t]
                                \o <<UserMessage(req[t].message)>>)

\* C16: when every Completion Client call and every tool execution
\* returns, every engine run ends, with a return or with a fatal error: a
\* turn does not stay in its engine run and a routed run does not stay on
\* the stack.  The iteration counter of a run, which counts its Completion
\* Client calls, never exceeds max_iterations (5).
C16_Terminates ==
    /\ [](\A t \in Turns : \A i \in 1..Len(stack[t]) :
            /\ stack[t][i].iterations >= 1
            /\ stack[t][i].iterations <= max_iterations
            /\ stack[t][i].iterations <= 5)
    /\ \A t \in Turns :
            /\ (pc[t] = "run") ~> (pc[t] \in {"lock_persist", "raised"})
            /\ (Len(stack[t]) = 2) ~> (Len(stack[t]) < 2)

\* a run has ended on its budget, another way to end being open before
C16_Witness ==
    \E t \in Turns :
        /\ FailedAtMaximum(t)
        /\ \E e \in tool_log : e[1] = t
        /\ t \in client_called

\* the raw argument text is not well-formed JSON
Malformed(args_raw) ==
    args_raw # "" /\ JsonLoads(args_raw).kind = "JSONDecodeError"

\* the parsed arguments are a dict holding the raw text as its one argument
SingleStringArgument(arguments, args_raw) ==
    /\ arguments.kind = "dict"
    /\ \E key \in DOMAIN arguments.value :
            /\ DOMAIN arguments.value = {key}
            /\ arguments.value[key] = args_raw

\* C17: in the orchestrator's tool handling and in a specialist's alike,
\* tool-call arguments that are not well-formed JSON reach the tool as a
\* single string argument holding the raw text (the routed specialist is
\* asked the raw text; the specialist's tool is called with it), and no turn
\* ends with a JSON decoding error.
C17_MalformedAsString ==
    \A t \in Turns :
        /\ result[t].error # "JSONDecodeError"
        /\ \A i \in 1..Len(stack[t]) :
            LET f == stack[t][i]
                args_raw == f.tool_calls[f.idx].function.arguments
            IN  /\ (i < Len(stack[t]) /\ Malformed(args_raw)) =>
                        stack[t][i + 1].history[2] = UserMessage(Strip(args_raw))
                /\ (f.awaiting = "tool" /\ Malformed(args_raw)) =>
                        SingleStringArgument(f.arguments, args_raw)

\* the text holds the part somewhere
Contains(text, part) ==
    \E i \in 1..(Len(text) - Len(part) + 1) :
        SubSeq(text, i, i + Len(part) - 1) = part

\* a message whose text, or one of whose recorded tool-call arguments, holds
\* the caller context
CarriesContext(m, user_context) ==
    \/ Contains(m.content, user_context)
    \/ \E k \in 1..Len(m.tool_calls) :
            Contains(m.tool_calls[k].function.arguments, user_context)

\* C18: the caller context of a turn appears in no message: not in an
\* engine history, not in a list sent to the Completion Client, not in a
\* stored thread history, and not in the tool-call arguments recorded on an
\* assistant message once the tool has run with the context merged in.
C18_ContextNeverInMessages ==
    \A t \in Turns :
        req[t].user_context # None =>
            /\ \A i \in 1..Len(stack[t]) :
                \A k \in 1..Len(stack[t][i].history) :
                    ~CarriesContext(stack[t][i].history[k], req[t].user_context)
            /\ \A k \in 1..Len(session_history[t]) :
                    ~CarriesContext(session_history[t][k], req[t].user_context)
            /\ \A id \in DOMAIN sessions :
                \A k \in 1..Len(sessions[id]) :
                    ~CarriesContext(sessions[id][k], req[t].user_context)

\* turn t runs lines 321-325 in this step
TakesSnapshot(t) == pc[t] = "snapshot" /\ pc'[t] # "snapshot"

\* the step adds exactly the thread id, with an empty history
CreatesThread(id) ==
    /\ id \notin DOMAIN sessions
    /\ DOMAIN sessions' = DOMAIN sessions \cup {id}
    /\ sessions'[id] = <<>>
    /\ \A k \in DOMAIN sessions : sessions'[k] = sessions[k]

\* C19: a thread is created, with an empty history, by the first chat
\* request that names an unknown thread id or supplies none; a request
\* without an id is assigned an id the store does not hold, and a successful
\* turn returns the id of its thread; a request that names a known thread
\* creates nothing; no step of any turn removes a thread id from the store.
C19_ThreadLifecycle ==
    [][ /\ DOMAIN sessions \subseteq DOMAIN sessions'
        /\ \A t \in Turns :
            TakesSnapshot(t) =>
                IF req[t].thread_id = None
                THEN /\ thread_id'[t] # None
                     /\ CreatesThread(thread_id'[t])
                ELSE /\ thread_id'[t] = req[t].thread_id
                     /\ IF req[t].thread_id \in DOMAIN sessions
                        THEN sessions' = sessions
                        ELSE CreatesThread(req[t].thread_id)
        /\ (DOMAIN sessions' # DOMAIN sessions) =>
                \E t \in Turns : TakesSnapshot(t)
        /\ \A t \in Turns :
            (result[t].status # "returned" /\ result'[t].status = "returned") =>
                /\ result'[t].thread_id = thread_id[t]
                /\ result'[t].thread_id \in DOMAIN sessions'
                /\ req[t].thread_id # None =>
                        result'[t].thread_id = req[t].thread_id
      ]_vars

\* one turn that supplied no id has returned the id it was assigned, a
\* failed turn that named "t1" has left that thread in the store, and the
\* store holds both threads
C19_Witness ==
    \E t \in Turns, u \in Turns :
        /\ req[t].thread_id = None
        /\ result[t].status = "returned"
        /\ result[t].thread_id \in DOMAIN sessions
        /\ result[t].thread_id # "t1"
        /\ req[u].thread_id = "t1"
        /\ pc[u] = "raised"
        /\ "t1" \in DOMAIN sessions
        /\ Cardinality(DOMAIN sessions) = 2

\* the specialist a routing tool is named after
NamedSpecialist(name) ==
    CHOOSE key \in SpecialistKeys :
        name \in {"call_" \o key \o "_specialist", "call_operations_" \o key}

\* in this step the routed run on top of turn t's stack hands its answer
\* back: the orchestrator's history grows by one message
RoutedRunReturns(t) ==
    /\ Len(stack[t]) = 2
    /\ Len(stack'[t]) >= 1
    /\ Len(stack'[t][1].history) = Len(stack[t][1].history) + 1

\* C20: a successful routed call returns, as the tool result, the payload
\* {agent, agent_id, answer}: agent and agent_id are the display name and
\* the identity of the specialist the called tool is named after, answer is
\* the final text of that specialist's own run, and the tool message
\* answers the routing call.
C20_RoutedPayload ==
    [][ \A t \in Turns :
            RoutedRunReturns(t) =>
                LET call == RoutingCall(t)
                    key == NamedSpecialist(call.function.name)
                    m == stack'[t][1].history[Len(stack'[t][1].history)]
                IN  /\ stack[t][2].agent = key
                    /\ m.role = "tool"
                    /\ m.tool_call_id = call.id
                    /\ m.content =
                          JsonPayload(specialist_profiles[key].display_name,
                                      specialist_profiles[key].id,
                                      ScriptedResponse.text)
                    /\ ~ScriptedResponse.failed
                    /\ ScriptedResponse.tool_calls = <<>>
      ]_vars

\* the orchestrator holds the support specialist's payload as the tool
\* message of its routing call and is asking the Completion Client again
C20_Witness ==
    \E t \in Turns :
        /\ pc[t] = "run"
        /\ Len(stack[t]) = 1
        /\ Top(stack[t]).awaiting = "client"
        /\ LET history == Top(stack[t]).history
               m == history[Len(history)]
           IN  /\ m.role = "tool"
               /\ m.content = "{\"agent\": \"CustomerSupportAssistant\", "
                        \o "\"agent_id\": \"id:support\", \"answer\": \"answer\"}"
               /\ history[Len(history) - 1].tool_calls[1].function.name
                        = "call_support_specialist"

\* the number of accepted requests of one client to the paths in `paths`
\* whose time lies in the span (from, to]
AcceptedIn(ip_address, paths, from, to) ==
    BagCardinality([e \in {x \in DOMAIN accepted :
                              /\ x[1] = ip_address /\ x[2] \in paths
                              /\ x[3] > from /\ x[3] <= to}
                        |-> accepted[e]])

\* C21: for every client IP and endpoint path, under calls of one limit,
\* the accepted requests whose times lie within one window_seconds (a span
\* that ends with an accepted request and is less than window_seconds
\* long) number at most max_requests.
C21_WindowLimit ==
    \A e \in DOMAIN accepted :
        AcceptedIn(e[1], {e[2]}, e[3] - limit.window_seconds, e[3])
            <= limit.max_requests

\* C22: for one client IP at most 50 requests to paths under /api/admin
\* are accepted in any 60 seconds, whichever admin paths they address.
C22_AdminLimit ==
    \A e \in DOMAIN accepted :
        StartsWith(e[2], "/api/admin") =>
            AcceptedIn(e[1], { x[2] : x \in { y \in DOMAIN accepted :
                                    StartsWith(y[2], "/api/admin") } },
                       e[3] - 60, e[3]) <= 50

\* the token of an Authorization header that carries a Bearer token
BearerToken(authorization) ==
    CASE authorization = "Bearer tokB" -> "tokB"
      [] authorization = "Bearer forged" -> "forged"
      [] authorization = "Bearer " -> ""
      [] OTHER -> None

\* the token the request presents: the cookie's, else the Bearer header's
PresentedToken ==
    IF http.cookie # None THEN http.cookie
                          ELSE BearerToken(http.authorization)

\* the request presents a token that the auth manager accepts
Authenticated ==
    /\ http.auth_manager = "AuthManager"
    /\ PresentedToken \in DOMAIN SignedTokens

\* the chat manager has been invoked for the request
ManagerInvoked == pc[First] # "idle"

\* C23: with authentication enabled, the /api/chat handler invokes the
\* chat manager only for a request whose token (the cookie's first, else
\* the Bearer header's) verify_jwt_token accepted, and with the user data
\* of that token; a request with no auth manager ends in 503 and one with
\* no token or a rejected token in 401, the manager never invoked and the
\* model never called.
C23_ChatOnlyAuthenticated ==
    (handler.pc # "idle" /\ http.enable_authentication) =>
        /\ ManagerInvoked =>
              /\ Authenticated
              /\ handler.user_data = SignedTokens[PresentedToken]
              /\ req[First].user_context = SignedTokens[PresentedToken]
        /\ ~Authenticated =>
              /\ ~ManagerInvoked
              /\ First \notin client_called
              /\ handler.pc \in {"auth", "responded"}
              /\ handler.pc = "responded" =>
                    handler.status = IF http.auth_manager = "AuthManager"
                                     THEN 401 ELSE 503

\* an authenticated request without cookie whose turn has called the model
\* under the user data of its Bearer token
C23_Witness ==
    /\ handler.pc # "idle" /\ http.enable_authentication
    /\ http.cookie = None
    /\ First \in client_called
    /\ req[First].user_context = "ctxB"

\* turn t was addressed to a specialist of the registry and has returned
SpecialistTurnDone(t) ==
    /\ pc[t] = "done"
    /\ ~Orchestrated(t)
    /\ \A u \in Turns \ {t} : pc[u] = "idle"

\* C24: after a successful turn addressed directly to a specialist, the
\* thread's stored history is the history before the turn, then the turn's
\* user message exactly once, then the specialist's reply messages
\* (assistant and tool messages only), the last of them the returned answer.
C24_UserMessageStoredOnce ==
    \A t \in Turns :
        SpecialistTurnDone(t) =>
            LET stored == sessions[thread_id[t]]
                seed == Append(StoredBefore(t), UserMessage(req[t].message))
                replies == After(stored, Len(seed))
            IN  /\ IsPrefix(seed, stored)
                /\ replies # <<>>
                /\ \A i \in 1..Len(replies) :
                        replies[i].role \in {"assistant", "tool"}
                /\ replies[Len(replies)] =
                        AssistantMessage(result[t].response, <<>>)

\* the routed run on top of turn t's stack fails in the step turn t takes
\* next: its Completion Client call fails, it is asked for tool calls while
\* it has no Tool Executor, or its last permitted iteration ends with tool
\* calls
RoutedRunFails(t) ==
    /\ pc[t] = "run"
    /\ Len(stack[t]) = 2
    /\ LET f == Top(stack[t])
       IN  \/ /\ f.awaiting = "client"
              /\ \/ ScriptedResponse.failed
                 \/ /\ ScriptedResponse.tool_calls # <<>>
                    /\ f.tool_executor = None
           \/ /\ f.awaiting = "tool"
              /\ f.idx = Len(f.tool_calls)
              /\ f.iterations = max_iterations

\* C25: in an orchestrator turn, a failure inside a routed specialist's run
\* is caught for that one tool call: the orchestrator's run goes on, and its
\* history gains the tool message of the routing call, carrying an error
\* payload.
C25_RoutedFailureSurfaced ==
    [][ \A t \in Turns :
            (RoutedRunFails(t) /\ Stepped(t)) =>
                /\ pc'[t] = "run"
                /\ Len(stack'[t]) >= 1
                /\ LET history == stack'[t][1].history
                       m == history[Len(history)]
                   IN  /\ Len(history) = Len(stack[t][1].history) + 1
                       /\ m.role = "tool"
                       /\ m.tool_call_id = RoutingCall(t).id
                       /\ Contains(m.content, "\"error\"")
      ]_vars

\* the call can succeed: one of its outcomes is a result
CanSucceed(tool_name, arguments, user_context) ==
    \E outcome \in execute_tool_call(tool_name, arguments, user_context) :
        ~outcome.raised

\* C26: for every registered tool and every argument set valid for it, a
\* tool execution that succeeds when no caller context is supplied also
\* succeeds with the caller context the engine hands over: merging the
\* context into the arguments turns no such call into an error.
C26_ContextKeepsToolWorking ==
    \A t \in Turns :
        (pc[t] = "run" /\ Top(stack[t]).awaiting = "tool") =>
            LET f == Top(stack[t])
                name == f.tool_calls[f.idx].function.name
            IN  (name \in tool_map /\ CanSucceed(name, f.arguments, None)) =>
                    /\ CanSucceed(name, f.arguments, f.user_context)
                    /\ \A outcome \in execute_tool_call(name, f.arguments,
                                                        f.user_context) :
                        outcome.raised =>
                            outcome \in execute_tool_call(name, f.arguments,
                                                          None)

\* C27: for every key K of the specialist registry, a chat turn requested
\* with agent_type K is answered by specialist K: the turn's engine run is
\* K's, seeded with K's system prompt and given K's tool executor, and the
\* agent_id the turn returns is K's identity.
C27_KeyAnsweredBySpecialist ==
    \A t \in Turns :
        req[t].agent_type \in SpecialistKeys =>
            LET key == req[t].agent_type
            IN  /\ pc[t] = "run" =>
                    /\ stack[t][1].agent = key
                    /\ stack[t][1].history[1] =
                            SystemMessage(specialist_profiles[key].prompt)
                    /\ stack[t][1].tool_executor =
                            (IF specialist_profiles[key].tools # {}
                             THEN "tools" ELSE None)
                /\ pc[t] = "done" =>
                    result[t].agent_id = specialist_profiles[key].id

\* C28: a chat request that is rejected for an unknown agent type, or whose
\* turn fails with a fatal error, leaves the session store exactly as it was
\* before the request: no thread is added and no stored history changes.
C28_FailedRequestLeavesStore ==
    \A t \in Turns :
        (pc[t] = "raised" /\ \A u \in Turns \ {t} : pc[u] = "idle") =>
            /\ DOMAIN sessions = DOMAIN store_before[t]
            /\ sessions = store_before[t]

\* turn t writes its history back in this step
WritesBack(t) == pc[t] = "persist" /\ pc'[t] = "done"

\* C29: under any interleaving of concurrent turns, a turn on one thread
\* never changes the stored history of another thread: a stored history
\* changes only in the write-back of a turn on that very thread, and a
\* write-back leaves every other entry of the store as it was.
C29_OtherThreadsUntouched ==
    [][ /\ \A id \in DOMAIN sessions :
            sessions'[id] # sessions[id] =>
                \E t \in Turns : WritesBack(t) /\ thread_id[t] = id
        /\ \A t \in Turns :
            WritesBack(t) =>
                /\ DOMAIN sessions' = DOMAIN sessions
                /\ sessions'[thread_id[t]] = Computed(t)
                /\ \A id \in DOMAIN sessions \ {thread_id[t]} :
                        sessions'[id] = sessions[id]
      ]_vars

\* two turns that were in flight together on different threads have both
\* returned, and each thread holds its own turn's history
C29_Witness ==
    \E t \in Turns, u \in Turns :
        /\ pc[t] = "done" /\ pc[u] = "done"
        /\ thread_id[t] = "uuid-1" /\ thread_id[u] = "uuid-2"
        /\ sessions[thread_id[t]] = Computed(t)
        /\ sessions[thread_id[u]] = Computed(u)
        /\ Holds(sessions[thread_id[t]], UserMessage(req[t].message))
        /\ ~Holds(sessions[thread_id[t]], UserMessage(req[u].message))
        /\ ~Holds(sessions[thread_id[u]], UserMessage(req[t].message))

\* C30: in every reachable state, under any interleaving of turns, every
\* stored thread history is either empty or starts with a user message,
\* contains no system message, and ends with an assistant message that
\* carries no tool calls.
C30_StoredHistoryShape ==
    \A id \in DOMAIN sessions :
        LET history == sessions[id]
        IN  history # <<>> =>
                /\ history[1].role = "user"
                /\ \A i \in 1..Len(history) : history[i].role # "system"
                /\ history[Len(history)].role = "assistant"
                /\ history[Len(history)].tool_calls = <<>>

\* both turns have returned, and a thread holds a history with a tool-call
\* round in it, written by a turn that ran while the other was in flight
C30_Witness ==
    /\ \A t \in Turns : pc[t] = "done"
    /\ \E t \in Turns :
        /\ t \in overlapped
        /\ sessions[thread_id[t]] = Computed(t)
        /\ CountRole(sessions[thread_id[t]], "tool") >= 1
        /\ \E i \in 1..Len(sessions[thread_id[t]]) :
                sessions[thread_id[t]][i].tool_calls # <<>>

====
